---------------------------- MODULE Spec2Model ----------------------------
(***************************************************************************)
(* A model of the Babylon.js galaxy demo (src/src/Renderer.ts, lines       *)
(* 1-1314, and src/src/index.ts): the Renderer's scene construction, its   *)
(* per-frame tick callbacks, the pointer handlers that move the camera     *)
(* focus, and the distance-percentage helper.                              *)
(*                                                                         *)
(* Numbers.  JavaScript numbers are modelled exactly: a finite number is   *)
(* a reduced fraction [k |-> "num", n, d] with d > 0, and the three        *)
(* non-finite results of a division are [k |-> "inf", n |-> 1 or -1] and   *)
(* [k |-> "nan"].  Rounding is not modelled.                               *)
(***************************************************************************)
EXTENDS Integers, Sequences, FiniteSets, TLC

(***************************************************************************)
(* Bounds of the model.                                                    *)
(***************************************************************************)
\* start and end thresholds handed to getDistanceRangePercentage: 0..MaxDist
MaxDist == 4
\* the sampled distance ranges over -DistMargin .. MaxDist + DistMargin
DistMargin == 1

(***************************************************************************)
(* Arithmetic on JavaScript numbers.                                       *)
(***************************************************************************)
Abs(i) == IF i < 0 THEN -i ELSE i

RECURSIVE Gcd(_, _)
Gcd(a, b) == IF b = 0 THEN a ELSE Gcd(b, a % b)

NaN == [k |-> "nan", n |-> 0, d |-> 0]
Infinity(sign) == [k |-> "inf", n |-> sign, d |-> 0]

\* the finite number n/d (d # 0), reduced, with a positive denominator
Num(n, d) ==
    LET g == Gcd(Abs(n), Abs(d))
        s == IF d < 0 THEN -1 ELSE 1
    IN  [k |-> "num", n |-> (s * n) \div g, d |-> (s * d) \div g]

Whole(i) == Num(i, 1)

IsFinite(v) == v.k = "num"

\* a <= b on numbers; every comparison with NaN is false, as in JavaScript
NumLE(a, b) ==
    CASE a.k = "nan" \/ b.k = "nan" -> FALSE
      [] a.k = "inf" -> a.n = -1 \/ (b.k = "inf" /\ b.n = 1)
      [] b.k = "inf" -> b.n = 1
      [] OTHER -> a.n * b.d <= b.n * a.d

NumLT(a, b) == NumLE(a, b) /\ a # b

\* the JavaScript quotient a / b of two integers
Divide(a, b) ==
    IF b # 0 THEN Num(a, b)
    ELSE IF a > 0 THEN Infinity(1)
    ELSE IF a < 0 THEN Infinity(-1)
    ELSE NaN

\* 1 - v and base - v * base, for a finite v
OneMinus(v) == Num(v.d - v.n, v.d)
ScaleDown(base, v) == Num(base * v.d - v.n * base, v.d)

(***************************************************************************)
(* Utils/Math.clamp.  The file is imported at Renderer.ts:54 but is not    *)
(* among the sources; it is modelled from the contract the specification   *)
(* gives, clamp(v, 0, 1): the nearest value of [lo, hi], NaN staying NaN.  *)
(***************************************************************************)
clamp(v, lo, hi) ==
    IF v.k = "nan" THEN v
    ELSE IF NumLT(v, lo) THEN lo
    ELSE IF NumLT(hi, v) THEN hi
    ELSE v

(***************************************************************************)
(* Renderer.getDistanceRangePercentage (Renderer.ts:1303-1312).            *)
(***************************************************************************)
\* a slip that subtracts the sample from the start threshold
getDistanceRangePercentage_swapped(startDist, endDist, distance) ==
    LET diffDist == endDist - startDist
        currentPos == Divide(startDist - distance, diffDist)
    IN  clamp(currentPos, Whole(0), Whole(1))

\* a slip that measures the sample from the end threshold
getDistanceRangePercentage_fromEnd(startDist, endDist, distance) ==
    LET diffDist == endDist - startDist
        currentPos == Divide(endDist - distance, diffDist)
    IN  clamp(currentPos, Whole(0), Whole(1))

getDistanceRangePercentage(startDist, endDist, distance) ==
    LET diffDist == endDist - startDist
        currentPos == Divide(distance - startDist, diffDist)
        perc == clamp(currentPos, Whole(0), Whole(1))
    IN  perc

(***************************************************************************)
(* Vectors and positions.  A coordinate is a literal integer or the value  *)
(* the orbit stepper computes, trig(angle) * length + centre, kept exact:  *)
(* an angle is an inverse-trig value of a direction component plus a whole *)
(* number of steps, StepsPerTurn steps making 2*pi.                        *)
(***************************************************************************)
\* number of piStep units in a full turn; the code's value is
\* 60 / fullRotationsPerSecond = 60000 (Renderer.ts:1007,1019), scaled down
StepsPerTurn == 6

Lit(i) == [k |-> "lit", v |-> i]
Vec(x, y, z) == <<Lit(x), Lit(y), Lit(z)>>
VecZero == Vec(0, 0, 0)

\* Vector3.addInPlace / subtract on literal vectors
VecAdd(a, b) == [i \in 1..3 |-> Lit(a[i].v + b[i].v)]
VecSubtract(a, b) == [i \in 1..3 |-> Lit(a[i].v - b[i].v)]

\* Vector3.length(): the root of the squared length, kept as the vector
VecLength(v) == [k |-> "len", of |-> v]

\* Vector3.normalizeToNew(): component i is v[i] / |v|
VecNormalizeToNew(v) == [i \in 1..3 |-> [k |-> "dir", c |-> v[i].v, of |-> v]]

\* Math.acos / Math.asin of a direction component
Math_acos(x) == [fn |-> "acos", arg |-> x, steps |-> 0]
Math_asin(x) == [fn |-> "asin", arg |-> x, steps |-> 0]

\* angle + n piStep units
AngleAdd(a, n) == [a EXCEPT !.steps = @ + n]

\* Math.cos / Math.sin: periodic in StepsPerTurn steps, and the inverse of
\* acos / asin on a whole number of turns
Math_trig(fn, inv, a) ==
    IF a.fn = inv /\ a.steps % StepsPerTurn = 0
    THEN a.arg
    ELSE [k |-> "trig", fn |-> fn, arg |-> [a EXCEPT !.steps = @ % StepsPerTurn]]
Math_cos(a) == Math_trig("cos", "acos", a)
Math_sin(a) == Math_trig("sin", "asin", a)

\* (t * len) + centre, with (c / |v|) * |v| = c
MulAdd(t, len, centre) ==
    IF t.k = "dir" /\ len = VecLength(t.of) /\ centre.k = "lit"
    THEN Lit(t.c + centre.v)
    ELSE [k |-> "muladd", t |-> t, len |-> len, centre |-> centre]

(***************************************************************************)
(* Scene construction (Renderer.initScene, Renderer.ts:165-324).           *)
(***************************************************************************)
\* layer masks as sets of bit positions: 0x10000000 = {28}, 0x20000000 = {29}
LAYER_1 == {28}
LAYER_2 == {29}
LayerAnd(a, b) == a \cap b

NoMesh == 0

\* the LOD levels every planet is configured with (e.g. Renderer.ts:453-456)
PlanetLodLevels == <<"0.01", "0.001">>

\* solarBodyConfigs (Renderer.ts:366-682).  The star has no lodConfig as
\* useGodRays is true (361, 372); offset is what postCreateCb adds to the
\* main mesh's position; clouds says whether postCreateCb builds a cloud
\* layer.
solarBodyConfigs == <<
    [type |-> "star", inspectorName |-> "sun", friendlyName |-> "Sun",
     levels |-> <<>>, layerMask |-> LAYER_2, offset |-> Vec(0, 0, 0),
     clouds |-> FALSE],
    [type |-> "planet", inspectorName |-> "planet1", friendlyName |-> "Penuaturn",
     levels |-> PlanetLodLevels, layerMask |-> LAYER_1, offset |-> Vec(50, 50, -10),
     clouds |-> FALSE],
    [type |-> "planet", inspectorName |-> "planet2", friendlyName |-> "Unradus",
     levels |-> PlanetLodLevels, layerMask |-> LAYER_1, offset |-> Vec(200, 0, 0),
     clouds |-> FALSE],
    [type |-> "planet", inspectorName |-> "planet3", friendlyName |-> "Lyke GS",
     levels |-> PlanetLodLevels, layerMask |-> LAYER_1, offset |-> Vec(-20, 20, 100),
     clouds |-> FALSE],
    [type |-> "planet", inspectorName |-> "planet4", friendlyName |-> "Vore 0MI",
     levels |-> PlanetLodLevels, layerMask |-> LAYER_1, offset |-> Vec(-200, 20, 100),
     clouds |-> TRUE],
    [type |-> "planet", inspectorName |-> "planet5", friendlyName |-> "Stan",
     levels |-> PlanetLodLevels, layerMask |-> LAYER_1, offset |-> Vec(50, 20, -200),
     clouds |-> TRUE] >>

\* MeshBuilder.CreateSphere / CreateBox: a mesh record; a mesh is known by
\* its index in scene.meshes, parent is such an index or NoMesh
NewMesh(name, layerMask, parent, isPickable, position) ==
    [name |-> name, layerMask |-> layerMask, parent |-> parent,
     isPickable |-> isPickable, position |-> position,
     absolutePosition |-> [local |-> VecZero, scaling |-> <<1000000, 1000000, 1000000>>]]

\* a slip that leaves the level out of the LOD sphere's name
LodName_noLevel(inspectorName, level) == inspectorName \o "_lod"

\* `${inspectorName}_lod_${level}` (Renderer.ts:718)
LodName(inspectorName, level) == inspectorName \o "_lod_" \o level

\* `${inspectorName}_clouds` (Renderer.ts:584, 653)
CloudsName(inspectorName) == inspectorName \o "_clouds"

\* a slip that prepends each record instead of appending it
PushBody_front(bodies, body) == <<body>> \o bodies

\* this.solarBodies.push(...) (Renderer.ts:695-699)
PushBody(bodies, body) == Append(bodies, body)

\* one iteration of solarBodyConfigs.forEach (Renderer.ts:685-742) on the
\* scene s = [meshes, solarBodies, orbit, onTickCallbacks]
BuildSolarBody(s, cfg) ==
    LET main == Len(s.meshes) + 1
        sphereMesh == NewMesh(cfg.inspectorName, cfg.layerMask, NoMesh, TRUE,
                              VecAdd(VecZero, cfg.offset))
        lodMeshes == [i \in 1..Len(cfg.levels) |->
                        NewMesh(LodName(cfg.inspectorName, cfg.levels[i]),
                                LAYER_1, main, TRUE, VecZero)]
        cloudsMesh == NewMesh(CloudsName(cfg.inspectorName), LAYER_1, main,
                              FALSE, VecZero)
        clouds == main + Len(cfg.levels) + 1
    IN  [meshes |->
            s.meshes \o <<sphereMesh>> \o lodMeshes
                \o (IF cfg.clouds THEN <<cloudsMesh>> ELSE <<>>),
         orbit |-> s.orbit,
         solarBodies |->
            PushBody(s.solarBodies,
                     [mesh |-> main, type |-> cfg.type, name |-> cfg.friendlyName]),
         onTickCallbacks |->
            s.onTickCallbacks
                \o (IF cfg.clouds
                    THEN <<[kind |-> "cloudRotation", mesh |-> clouds]>>
                    ELSE <<>>)]

RECURSIVE ForEachConfig(_, _, _)
ForEachConfig(s, configs, i) ==
    IF i > Len(configs) THEN s
    ELSE ForEachConfig(BuildSolarBody(s, configs[i]), configs, i + 1)

\* Renderer.initPlanets (Renderer.ts:356-744)
initPlanets(s) == ForEachConfig(s, solarBodyConfigs, 1)

\* the records of the given type, in list order: solarBodies.filter(...)
FilterType(bodies, type) == SelectSeq(bodies, LAMBDA b : b.type = type)

\* Renderer.initGuiWip (Renderer.ts:746-756): one label per planet, each
\* registering its tick callback (829)
initGuiWip(s) ==
    LET planets == FilterType(s.solarBodies, "planet")
    IN  [s EXCEPT !.onTickCallbacks =
            @ \o [i \in 1..Len(planets) |->
                    [kind |-> "planetLabel", mesh |-> planets[i].mesh]]]

\* Renderer.registerGalaxyScaling (Renderer.ts:947-996)
registerGalaxyScaling(s) ==
    [s EXCEPT !.onTickCallbacks =
        Append(@, [kind |-> "galaxyScaling", mesh |-> NoMesh])]

\* Renderer.registerPlanetOrbitRotation (Renderer.ts:998-1051), the
\* registration of one callback per planet
registerPlanetOrbitRotation(s) ==
    LET planets == FilterType(s.solarBodies, "planet")
        sunMesh == FilterType(s.solarBodies, "star")[1].mesh
        Closure(planetMesh) ==
            LET distanceVector == VecSubtract(s.meshes[planetMesh].position,
                                              s.meshes[sunMesh].position)
                currentDirectionVector == VecNormalizeToNew(distanceVector)
            IN  [sunMesh |-> sunMesh,
                 distanceVectorLength |-> VecLength(distanceVector),
                 currentCosPi |-> Math_acos(currentDirectionVector[1]),
                 currentSinPi |-> Math_asin(currentDirectionVector[3]),
                 currentTiltPi |-> Math_asin(currentDirectionVector[2])]
    IN  [s EXCEPT
          !.orbit = [m \in {planets[i].mesh : i \in 1..Len(planets)} |-> Closure(m)],
          !.onTickCallbacks =
            @ \o [i \in 1..Len(planets) |->
                    [kind |-> "planetOrbit", mesh |-> planets[i].mesh]]]

\* a slip that registers the focus-tracking callback before the calls of
\* lines 274-281
initScene_focusFirst ==
    LET s0 == [meshes |-> <<NewMesh("skyBox", LAYER_1, NoMesh, FALSE, VecZero)>>,
               solarBodies |-> <<>>,
               orbit |-> <<>>,
               onTickCallbacks |-> <<[kind |-> "exploreRotation", mesh |-> NoMesh],
                                     [kind |-> "focusTracking", mesh |-> NoMesh]>>]
        s1 == initPlanets(s0)
        s2 == initGuiWip(s1)
        s3 == registerGalaxyScaling(s2)
        s4 == registerPlanetOrbitRotation(s3)
    IN  s4

\* Renderer.initScene (Renderer.ts:165-324): the skybox, then the calls of
\* lines 274-281, then the focus-tracking callback (293)
initScene ==
    LET s0 == [meshes |-> <<NewMesh("skyBox", LAYER_1, NoMesh, FALSE, VecZero)>>,
               solarBodies |-> <<>>,
               orbit |-> <<>>,
               onTickCallbacks |-> <<[kind |-> "exploreRotation", mesh |-> NoMesh]>>]
        s1 == initPlanets(s0)
        s2 == initGuiWip(s1)
        s3 == registerGalaxyScaling(s2)
        s4 == registerPlanetOrbitRotation(s3)
    IN  [s4 EXCEPT !.onTickCallbacks =
            Append(@, [kind |-> "focusTracking", mesh |-> NoMesh])]

(***************************************************************************)
(* The state of a Renderer.                                                *)
(***************************************************************************)
VARIABLES
    \* scene.meshes: records [name, layerMask, parent, isPickable, position,
    \* absolutePosition], a mesh being known by its index
    sceneMeshes,
    \* this.solarBodies: records [mesh, type, name]; a record is known by
    \* its index in the list
    solarBodies,
    \* this.onTickCallbacks: records [kind, mesh], in registration order
    onTickCallbacks,
    \* this.currentlyFocusedPlanet: an index of solarBodies, or Undefined
    currentlyFocusedPlanet,
    \* the default camera: [radius, target, moves], moves being the number of
    \* camera-move animations of lines 1279-1283 running on it
    camera,
    \* the explore camera: [parent, radius, alphaSteps, viewport, layerMask]
    exploreCamera,
    \* solarSystemTransformNode: [scaling, pivot]
    solarSystemTransformNode,
    \* the closure variables of initJumpToCameraPosition (Renderer.ts:1175-1177)
    pointerDown, animations, bodyMesh,
    \* the pointer-up invocations suspended on the zoom animation (1260),
    \* oldest first: records [mesh, down]
    suspended,
    \* the closure variables of the tick callbacks: exploreCameraVisible
    \* (967), the orbit accumulators of each planet (1010-1015), the cloud
    \* layers' rotation and the labels' controls
    exploreCameraVisible, orbit, cloudRotation, labels,
    \* what the last run of the render loop did: [delta, animationRatio,
    \* calls, orbitUsed, focused], calls being the callbacks run and the
    \* render, in order, focused the body in focus while they ran
    lastFrame,
    \* number of frames rendered
    frames,
    \* the harness of getDistanceRangePercentage: its arguments, its result
    \* and the sample before
    percArgs, percResult, percPrev,
    \* history: the mesh picked by the last pointer event if that was a
    \* pointer-down; whether the pointer is up ("idle"), down ("pressed"),
    \* has moved since it last went down ("moved"), or was released on a
    \* mesh after such a move ("cancelled"); the focus change the last step
    \* made, [mesh, down]; and the run of frames with one animationRatio
    \* that is under way, [ratio, ticks, start]
    downMesh, gesture, focusChange, run,
    \* what the scene optimizer works on: the priority level it applies next,
    \* engine.getHardwareScalingLevel() in hundredths of initialDeviceRatio
    \* (Renderer.ts:139), whether the god rays post-process is alive (425),
    \* the level of each star's diffuse texture in tenths, and the fields of
    \* the rendering pipeline (326-345) with the exposure in thousandths;
    \* and the optimizations it has applied so far, oldest first
    currentPriorityLevel, hardwareScalingLevel, godRays, textureLevel,
    renderingPipeline, applied,
    \* module.hot.data of the hot-reload host (index.ts:47-71): the number of
    \* reloads so far and, after one, the snapshot the dispose hook took,
    \* [reloads, defaultCamera, solarSystemTransformNode]
    hmrData

vars == <<sceneMeshes, solarBodies, onTickCallbacks, currentlyFocusedPlanet,
          camera, exploreCamera, solarSystemTransformNode, pointerDown,
          animations, bodyMesh, suspended, exploreCameraVisible, orbit,
          cloudRotation, labels, lastFrame, frames, percArgs, percResult,
          percPrev, downMesh, gesture, focusChange, run,
          currentPriorityLevel, hardwareScalingLevel, godRays, textureLevel,
          renderingPipeline, applied, hmrData>>

sceneVars == <<sceneMeshes, solarBodies, onTickCallbacks>>
pointerVars == <<pointerDown, animations, bodyMesh, suspended>>
focusVars == <<currentlyFocusedPlanet, camera, exploreCamera,
               solarSystemTransformNode>>
tickVars == <<exploreCameraVisible, orbit, cloudRotation, labels, lastFrame,
              frames>>
percVars == <<percArgs, percResult, percPrev>>
historyVars == <<downMesh, gesture, focusChange, run>>
optimizerVars == <<currentPriorityLevel, hardwareScalingLevel, godRays,
                   textureLevel, renderingPipeline, applied>>

Undefined == 0

(***************************************************************************)
(* Scales, points and the galaxy-mode test.  A scale is kept in millionths.*)
(***************************************************************************)
Unit == 1000000
VecOne == <<Unit, Unit, Unit>>

\* Vector3.equalsWithEpsilon on scales, epsilon in millionths
EqualsWithEpsilon(a, b, epsilon) ==
    \A i \in 1..3 : Abs(a[i] - b[i]) <= epsilon

\* 0.01 and 0.001 (Renderer.ts:301, 980, 1259, 1287)
EPSILON_GALAXY == 10000
EPSILON_VIEWPORT == 1000

\* SineEase in EASINGMODE_EASEIN (Renderer.ts:949-950): ease(g) =
\* 1 - sin(pi/2 * (1 - g)), in millionths, tabulated at the gradients of
\* the sampled camera radii 108, 120, 250 (and 0 and 1)
SineEaseIn(g) ==
    CASE g = Whole(0) -> 0
      [] g = Num(2, 75) -> 877
      [] g = Num(1, 15) -> 5478
      [] g = Num(1, 2) -> 292893
      [] g = Whole(1) -> Unit

\* a point of the world: a local position under a scaling of the solar
\* system node
Point(local, scaling) == [local |-> local, scaling |-> scaling]

RECURSIVE RootMesh(_, _)
RootMesh(meshes, m) ==
    IF meshes[m].parent = NoMesh THEN m ELSE RootMesh(meshes, meshes[m].parent)

\* scene.render() recomputes the world matrices: absolutePosition follows
\* the position of the mesh's root and the node's scaling
ComputeWorld(meshes, scaling) ==
    [m \in DOMAIN meshes |->
        [meshes[m] EXCEPT !.absolutePosition =
            Point(meshes[RootMesh(meshes, m)].position, scaling)]]

\* the picture-in-picture rectangle of initScene (Renderer.ts:200-211) for
\* an aspect ratio of 2, in hundredths, and the collapsed one (991)
PipViewport == [x |-> 0, y |-> 70, w |-> 15, h |-> 30]
CollapsedViewport == [x |-> 0, y |-> 0, w |-> 1, h |-> 1]

(***************************************************************************)
(* The tick callbacks, as functions of the world                           *)
(*   w = [meshes, camera, exploreCamera, node, focused, visible, orbit,    *)
(*        cloudRotation, labels, orbitUsed, viewportWritten],              *)
(*   viewportWritten noting whether a tick has made a new Viewport.        *)
(***************************************************************************)
\* Renderer.ts:187, in units of 0.002 rad
TickExploreRotation(w, animationRatio) ==
    [w EXCEPT !.exploreCamera.alphaSteps = @ - animationRatio]

\* Renderer.ts:607-608 and 677-678, in units of 0.0002 rad about -Y
TickCloudRotation(w, cloudsMesh, animationRatio) ==
    [w EXCEPT !.cloudRotation[cloudsMesh] = @ + animationRatio]

\* defaultPlanetLabelOpts (Renderer.ts:96-103)
LabelOpts ==
    [fontSize |-> 24, rect1Width |-> 140, rect1Height |-> 40, linkOffsetY |-> 170,
     opacityDistanceControl |-> [start |-> 40, end |-> 60],
     sizeDistanceControl |-> [start |-> 0, end |-> 80]]

\* the controls of a label as initPlanetLabel leaves them (Renderer.ts:767-827)
NewLabel ==
    [rectAlpha |-> Whole(1), lineAlpha |-> Whole(1),
     fontSize |-> Whole(LabelOpts.fontSize),
     width |-> Whole(LabelOpts.rect1Width),
     height |-> Whole(LabelOpts.rect1Height),
     top |-> Num(LabelOpts.rect1Height - 2 * LabelOpts.rect1Height, 2),
     linkOffsetY |-> Whole(LabelOpts.linkOffsetY)]

\* a slip that leaves the connector line's alpha alone
TickPlanetLabel_lineKept(w, planetMesh, distance) ==
    LET opacityPerc == getDistanceRangePercentage(
                           LabelOpts.opacityDistanceControl.start,
                           LabelOpts.opacityDistanceControl.end, distance)
        opacity == OneMinus(opacityPerc)
        sizePerc == getDistanceRangePercentage(
                        LabelOpts.sizeDistanceControl.start,
                        LabelOpts.sizeDistanceControl.end, distance)
        newSizeY == ScaleDown(LabelOpts.rect1Height, sizePerc)
    IN  IF ~w.defaultCamera THEN w
        ELSE
        [w EXCEPT !.labels[planetMesh] =
            [rectAlpha |-> opacity, lineAlpha |-> @.lineAlpha,
             fontSize |-> ScaleDown(LabelOpts.fontSize, sizePerc),
             width |-> ScaleDown(LabelOpts.rect1Width, sizePerc),
             height |-> newSizeY,
             top |-> Num(newSizeY.n - 2 * newSizeY.n, 2 * newSizeY.d),
             linkOffsetY |-> ScaleDown(LabelOpts.linkOffsetY, sizePerc)]]

\* Renderer.ts:829-856; distance is Vector3.Distance(camera.position,
\* planetMesh.absolutePosition), an input of the frame
TickPlanetLabel(w, planetMesh, distance) ==
    LET opacityPerc == getDistanceRangePercentage(
                           LabelOpts.opacityDistanceControl.start,
                           LabelOpts.opacityDistanceControl.end, distance)
        opacity == OneMinus(opacityPerc)
        sizePerc == getDistanceRangePercentage(
                        LabelOpts.sizeDistanceControl.start,
                        LabelOpts.sizeDistanceControl.end, distance)
        newSizeY == ScaleDown(LabelOpts.rect1Height, sizePerc)
    IN  IF ~w.defaultCamera THEN w
        ELSE
        [w EXCEPT !.labels[planetMesh] =
            [rectAlpha |-> opacity, lineAlpha |-> opacity,
             fontSize |-> ScaleDown(LabelOpts.fontSize, sizePerc),
             width |-> ScaleDown(LabelOpts.rect1Width, sizePerc),
             height |-> newSizeY,
             top |-> Num(newSizeY.n - 2 * newSizeY.n, 2 * newSizeY.d),
             linkOffsetY |-> ScaleDown(LabelOpts.linkOffsetY, sizePerc)]]

\* scaleDistanceControl and scaleAmount (Renderer.ts:955-964), the scale
\* range 0.99 in hundredths
GalaxyControl == [start |-> 100, end |-> 400]
ScaleRangeHundredths == 99

\* a slip that grows the scale from scaleAmount.min instead of shrinking it
\* from scaleAmount.max
TickGalaxyScaling_inverted(w) ==
    LET linearScalePerc == getDistanceRangePercentage(
                               GalaxyControl.start, GalaxyControl.end,
                               w.camera.radius)
        gradientScalePerc == SineEaseIn(linearScalePerc)
        newSolarSystemScale ==
            (Unit - ScaleRangeHundredths * (Unit \div 100))
              + ((gradientScalePerc * ScaleRangeHundredths + 50) \div 100)
        scaleVector == <<newSolarSystemScale, newSolarSystemScale,
                         newSolarSystemScale>>
        w1 == [w EXCEPT !.node.scaling = scaleVector]
    IN  IF EqualsWithEpsilon(scaleVector, VecOne, EPSILON_VIEWPORT)
        THEN IF ~w1.visible
             THEN [w1 EXCEPT !.visible = TRUE,
                             !.exploreCamera.viewport = PipViewport,
                             !.viewportWritten = TRUE]
             ELSE w1
        ELSE IF w1.visible
             THEN [w1 EXCEPT !.visible = FALSE,
                             !.exploreCamera.viewport = CollapsedViewport,
                             !.viewportWritten = TRUE]
             ELSE w1

\* a slip that leaves out the exploreCameraVisible flag and writes the
\* viewport on every tick
TickGalaxyScaling_everyTick(w) ==
    LET linearScalePerc == getDistanceRangePercentage(
                               GalaxyControl.start, GalaxyControl.end,
                               w.camera.radius)
        gradientScalePerc == SineEaseIn(linearScalePerc)
        newSolarSystemScale ==
            Unit - ((gradientScalePerc * ScaleRangeHundredths + 50) \div 100)
        scaleVector == <<newSolarSystemScale, newSolarSystemScale,
                         newSolarSystemScale>>
        w1 == [w EXCEPT !.node.scaling = scaleVector]
    IN  IF EqualsWithEpsilon(scaleVector, VecOne, EPSILON_VIEWPORT)
        THEN [w1 EXCEPT !.visible = TRUE,
                        !.exploreCamera.viewport = PipViewport,
                        !.viewportWritten = TRUE]
        ELSE [w1 EXCEPT !.visible = FALSE,
                        !.exploreCamera.viewport = CollapsedViewport,
                        !.viewportWritten = TRUE]

\* Renderer.ts:969-995
TickGalaxyScaling(w) ==
    LET linearScalePerc == getDistanceRangePercentage(
                               GalaxyControl.start, GalaxyControl.end,
                               w.camera.radius)
        gradientScalePerc == SineEaseIn(linearScalePerc)
        newSolarSystemScale ==
            Unit - ((gradientScalePerc * ScaleRangeHundredths + 50) \div 100)
        scaleVector == <<newSolarSystemScale, newSolarSystemScale,
                         newSolarSystemScale>>
        w1 == [w EXCEPT !.node.scaling = scaleVector]
    IN  IF EqualsWithEpsilon(scaleVector, VecOne, EPSILON_VIEWPORT)
        THEN IF ~w1.visible
             THEN [w1 EXCEPT !.visible = TRUE,
                             !.exploreCamera.viewport = PipViewport,
                             !.viewportWritten = TRUE]
             ELSE w1
        ELSE IF w1.visible
             THEN [w1 EXCEPT !.visible = FALSE,
                             !.exploreCamera.viewport = CollapsedViewport,
                             !.viewportWritten = TRUE]
             ELSE w1

\* a slip that measures the orbit afresh on every tick, around the planet's
\* own position
TickPlanetOrbit_live(w, planetMesh, animationRatio) ==
    LET o == w.orbit[planetMesh]
        here == w.meshes[planetMesh].position
        len == VecLength(here)
        newCosPi == AngleAdd(o.currentCosPi, animationRatio)
        newSinPi == AngleAdd(o.currentSinPi, animationRatio)
        newTiltPi == AngleAdd(o.currentTiltPi, animationRatio)
    IN  [w EXCEPT
          !.meshes[planetMesh].position =
              << MulAdd(Math_cos(newCosPi), len, here[1]),
                 MulAdd(Math_sin(newTiltPi), len, here[2]),
                 MulAdd(Math_sin(newSinPi), len, here[3]) >>,
          !.orbit[planetMesh].currentCosPi = newCosPi,
          !.orbit[planetMesh].currentSinPi = newSinPi,
          !.orbit[planetMesh].currentTiltPi = newTiltPi,
          !.orbitUsed[planetMesh] = [centre |-> here, radius |-> len]]

\* a slip that forgets to save the z phase for the next tick
TickPlanetOrbit_noSave(w, planetMesh, animationRatio) ==
    LET o == w.orbit[planetMesh]
        sun == w.meshes[o.sunMesh].position
        newCosPi == AngleAdd(o.currentCosPi, animationRatio)
        newSinPi == AngleAdd(o.currentSinPi, animationRatio)
        newTiltPi == AngleAdd(o.currentTiltPi, animationRatio)
    IN  [w EXCEPT
          !.meshes[planetMesh].position =
              << MulAdd(Math_cos(newCosPi), o.distanceVectorLength, sun[1]),
                 MulAdd(Math_sin(newTiltPi), o.distanceVectorLength, sun[2]),
                 MulAdd(Math_sin(newSinPi), o.distanceVectorLength, sun[3]) >>,
          !.orbit[planetMesh].currentCosPi = newCosPi,
          !.orbit[planetMesh].currentTiltPi = newTiltPi,
          !.orbitUsed[planetMesh] =
              [centre |-> sun, radius |-> o.distanceVectorLength]]

\* a slip that does not save the phase of the y axis
TickPlanetOrbit_tiltKept(w, planetMesh, animationRatio) ==
    LET o == w.orbit[planetMesh]
        sun == w.meshes[o.sunMesh].position
        animationPiStep == animationRatio
        newCosPi == AngleAdd(o.currentCosPi, animationPiStep)
        newCos == Math_cos(newCosPi)
        newSinPi == AngleAdd(o.currentSinPi, animationPiStep)
        newSin == Math_sin(newSinPi)
        newTiltPi == AngleAdd(o.currentTiltPi, animationPiStep)
        newTilt == Math_sin(newTiltPi)
    IN  [w EXCEPT
          !.meshes[planetMesh].position =
              << MulAdd(newCos, o.distanceVectorLength, sun[1]),
                 MulAdd(newTilt, o.distanceVectorLength, sun[2]),
                 MulAdd(newSin, o.distanceVectorLength, sun[3]) >>,
          !.orbit[planetMesh].currentCosPi = newCosPi,
          !.orbit[planetMesh].currentSinPi = newSinPi,
          !.orbit[planetMesh].currentTiltPi = o.currentTiltPi,
          !.orbitUsed[planetMesh] =
              [centre |-> sun, radius |-> o.distanceVectorLength]]

\* Renderer.ts:1017-1047; an angle is counted in piStep units, so that
\* animationPiStep = piStep * animationRatio is animationRatio units.  The
\* centre and radius the tick used are noted in orbitUsed.
TickPlanetOrbit(w, planetMesh, animationRatio) ==
    LET o == w.orbit[planetMesh]
        sun == w.meshes[o.sunMesh].position
        animationPiStep == animationRatio
        newCosPi == AngleAdd(o.currentCosPi, animationPiStep)
        newCos == Math_cos(newCosPi)
        newSinPi == AngleAdd(o.currentSinPi, animationPiStep)
        newSin == Math_sin(newSinPi)
        newTiltPi == AngleAdd(o.currentTiltPi, animationPiStep)
        newTilt == Math_sin(newTiltPi)
    IN  [w EXCEPT
          !.meshes[planetMesh].position =
              << MulAdd(newCos, o.distanceVectorLength, sun[1]),
                 MulAdd(newTilt, o.distanceVectorLength, sun[2]),
                 MulAdd(newSin, o.distanceVectorLength, sun[3]) >>,
          !.orbit[planetMesh].currentCosPi = newCosPi,
          !.orbit[planetMesh].currentSinPi = newSinPi,
          !.orbit[planetMesh].currentTiltPi = newTiltPi,
          !.orbitUsed[planetMesh] =
              [centre |-> sun, radius |-> o.distanceVectorLength]]

\* a slip that leaves out the test for galaxy mode
TickFocusTracking_always(w) ==
    IF w.focused = Undefined THEN w
    ELSE LET target == w.meshes[solarBodies[w.focused].mesh].absolutePosition
         IN  [w EXCEPT !.camera.target = target, !.node.pivot = target]

\* Renderer.ts:293-311
TickFocusTracking(w) ==
    IF w.focused = Undefined THEN w
    ELSE IF ~EqualsWithEpsilon(w.node.scaling, VecOne, EPSILON_GALAXY) THEN w
    ELSE LET target == w.meshes[solarBodies[w.focused].mesh].absolutePosition
         IN  [w EXCEPT !.camera.target = target, !.node.pivot = target]

\* one callback of the list, called with (delta, animationRatio)
CallTick(w, cb, delta, animationRatio, distance) ==
    CASE cb.kind = "exploreRotation" -> TickExploreRotation(w, animationRatio)
      [] cb.kind = "cloudRotation" -> TickCloudRotation(w, cb.mesh, animationRatio)
      [] cb.kind = "planetLabel" -> TickPlanetLabel(w, cb.mesh, distance[cb.mesh])
      [] cb.kind = "galaxyScaling" -> TickGalaxyScaling(w)
      [] cb.kind = "planetOrbit" -> TickPlanetOrbit(w, cb.mesh, animationRatio)
      [] cb.kind = "focusTracking" -> TickFocusTracking(w)

(***************************************************************************)
(* The world the handlers act on, and its write-back.  this.defaultCamera  *)
(* is set at Renderer.ts:169, before any callback runs, and never cleared. *)
(***************************************************************************)
NoChange == [mesh |-> NoMesh, down |-> NoMesh]

World ==
    [meshes |-> sceneMeshes, camera |-> camera, exploreCamera |-> exploreCamera,
     node |-> solarSystemTransformNode, focused |-> currentlyFocusedPlanet,
     visible |-> exploreCameraVisible, orbit |-> orbit,
     cloudRotation |-> cloudRotation, labels |-> labels,
     orbitUsed |-> lastFrame.orbitUsed, animations |-> animations,
     focusChange |-> NoChange, defaultCamera |-> TRUE,
     viewportWritten |-> FALSE]

Commit(w) ==
    /\ sceneMeshes' = w.meshes
    /\ camera' = w.camera
    /\ exploreCamera' = w.exploreCamera
    /\ solarSystemTransformNode' = w.node
    /\ currentlyFocusedPlanet' = w.focused
    /\ exploreCameraVisible' = w.visible
    /\ orbit' = w.orbit
    /\ cloudRotation' = w.cloudRotation
    /\ labels' = w.labels
    /\ animations' = w.animations
    /\ focusChange' = w.focusChange

(***************************************************************************)
(* The render loop (Renderer.ts:148-158).                                  *)
(***************************************************************************)
\* the entry of lastFrame.calls for scene.render()
RenderCall == 0

RECURSIVE ForEachTick(_, _, _, _, _, _)
ForEachTick(r, callbacks, i, delta, animationRatio, distance) ==
    IF i > Len(callbacks) THEN r
    ELSE ForEachTick(
             [w |-> CallTick(r.w, callbacks[i], delta, animationRatio, distance),
              calls |-> Append(r.calls, [cb |-> i, delta |-> delta,
                                         animationRatio |-> animationRatio])],
             callbacks, i + 1, delta, animationRatio, distance)

\* a slip that draws the frame before the callbacks have run
RunRenderLoop_renderFirst(w, delta, animationRatio, distance) ==
    ForEachTick([w |-> [w EXCEPT !.meshes = ComputeWorld(w.meshes, w.node.scaling)],
                 calls |-> <<[cb |-> RenderCall, delta |-> delta,
                              animationRatio |-> animationRatio]>>],
                onTickCallbacks, 1, delta, animationRatio, distance)

\* the callback given to runRenderLoop: every tick callback in list order,
\* then scene.render()
RunRenderLoop(w, delta, animationRatio, distance) ==
    LET ticked == ForEachTick([w |-> w, calls |-> <<>>], onTickCallbacks, 1,
                              delta, animationRatio, distance)
    IN  [w |-> [ticked.w EXCEPT
                  !.meshes = ComputeWorld(ticked.w.meshes, ticked.w.node.scaling)],
         calls |-> Append(ticked.calls,
                          [cb |-> RenderCall, delta |-> delta,
                           animationRatio |-> animationRatio])]

(***************************************************************************)
(* The pointer handlers (Renderer.initJumpToCameraPosition,                *)
(* Renderer.ts:1173-1301).                                                 *)
(***************************************************************************)
\* the radius the zoom animation ends on (Renderer.ts:1261)
ZOOM_RADIUS == 95

\* the four animations a focus change starts (Renderer.ts:1279-1283)
CameraMoves == <<"cameraMove1", "cameraMove2", "cameraMove3", "cameraMove4">>

\* a slip that falls back on the captured mesh where the handler returns
ResolveMesh_captured(pick) ==
    IF pick.pickedMesh # NoMesh THEN pick.pickedMesh
    ELSE IF ~pick.hit /\ pick.fallback # NoMesh THEN pick.fallback
    ELSE bodyMesh

\* the mesh a pointer event is about (Renderer.ts:1187-1204, 1225-1242):
\* the picked mesh, else what scene.pick finds through the main camera when
\* nothing was hit; NoMesh where the handler returns
ResolveMesh(pick) ==
    IF pick.pickedMesh # NoMesh THEN pick.pickedMesh
    ELSE IF ~pick.hit THEN pick.fallback
    ELSE NoMesh

\* this.solarBodies.filter(solarBody => solarBody.mesh === mesh)[0]
CorrespondingSolarBody(mesh) ==
    LET found == {i \in 1..Len(solarBodies) : solarBodies[i].mesh = mesh}
    IN  IF found = {} THEN Undefined
        ELSE CHOOSE i \in found : \A j \in found : i <= j

\* a slip that re-parents the explore camera whatever the layer mask
JumpTo_anyLayer(w, mesh, down) ==
    LET correspondingSolarBody == CorrespondingSolarBody(mesh)
        point == w.meshes[mesh].absolutePosition
        w1 == [w EXCEPT !.focused = correspondingSolarBody,
                        !.animations = @ \o CameraMoves,
                        !.camera.moves = @ + Len(CameraMoves),
                        !.focusChange = [mesh |-> mesh, down |-> down]]
        w2 == IF EqualsWithEpsilon(w1.node.scaling, VecOne, EPSILON_GALAXY)
              THEN [w1 EXCEPT !.node.pivot = point]
              ELSE w1
    IN  IF w.focused = correspondingSolarBody THEN w
        ELSE [w2 EXCEPT !.exploreCamera.parent = mesh,
                        !.exploreCamera.radius = mesh]

\* a slip that leaves out the test for the body already focused
JumpTo_again(w, mesh, down) ==
    LET correspondingSolarBody == CorrespondingSolarBody(mesh)
        point == w.meshes[mesh].absolutePosition
        w1 == [w EXCEPT !.focused = correspondingSolarBody,
                        !.animations = @ \o CameraMoves,
                        !.camera.moves = @ + Len(CameraMoves),
                        !.focusChange = [mesh |-> mesh, down |-> down]]
        w2 == IF EqualsWithEpsilon(w1.node.scaling, VecOne, EPSILON_GALAXY)
              THEN [w1 EXCEPT !.node.pivot = point]
              ELSE w1
    IN  IF LayerAnd(w.meshes[mesh].layerMask, w.exploreCamera.layerMask) # {}
        THEN [w2 EXCEPT !.exploreCamera.parent = mesh,
                        !.exploreCamera.radius = mesh]
        ELSE w2

\* Renderer.ts:1265-1297, the part of the pointer-up handler after the
\* await; down is the history value handed on to focusChange
JumpTo(w, mesh, down) ==
    LET correspondingSolarBody == CorrespondingSolarBody(mesh)
        point == w.meshes[mesh].absolutePosition
        w1 == [w EXCEPT !.focused = correspondingSolarBody,
                        !.animations = @ \o CameraMoves,
                        !.camera.moves = @ + Len(CameraMoves),
                        !.focusChange = [mesh |-> mesh, down |-> down]]
        w2 == IF EqualsWithEpsilon(w1.node.scaling, VecOne, EPSILON_GALAXY)
              THEN [w1 EXCEPT !.node.pivot = point]
              ELSE w1
    IN  IF w.focused = correspondingSolarBody THEN w
        ELSE IF LayerAnd(w.meshes[mesh].layerMask, w.exploreCamera.layerMask) # {}
        THEN [w2 EXCEPT !.exploreCamera.parent = mesh,
                        !.exploreCamera.radius = mesh]
        ELSE w2

\* the value of bodyMesh after scene.onPointerDown (Renderer.ts:1187-1206)
OnPointerDown_capture(mesh) == IF mesh = NoMesh THEN bodyMesh ELSE mesh

\* scene.onPointerDown (Renderer.ts:1184-1207)
PointerDown(pick) ==
    /\ pointerDown' = TRUE
    /\ bodyMesh' = OnPointerDown_capture(ResolveMesh(pick))
    /\ downMesh' = ResolveMesh(pick)
    /\ gesture' = "pressed"
    /\ focusChange' = NoChange
    /\ UNCHANGED <<sceneVars, focusVars, tickVars, percVars, optimizerVars, hmrData,
                   animations, suspended, run>>

\* a slip that keeps the captured mesh when the pointer moves
OnPointerMove_capture_keep(down) == bodyMesh

\* the value of bodyMesh after scene.onPointerMove (Renderer.ts:1209-1215)
OnPointerMove_capture(down) == IF down THEN NoMesh ELSE bodyMesh

\* a slip that empties the list without stopping the animations in it
PointerMove_notStopped ==
    /\ bodyMesh' = OnPointerMove_capture(pointerDown)
    /\ animations' = IF pointerDown THEN <<>> ELSE animations
    /\ camera' = camera
    /\ downMesh' = NoMesh
    /\ gesture' = IF gesture \in {"idle", "cancelled"} THEN gesture ELSE "moved"
    /\ focusChange' = NoChange
    /\ UNCHANGED <<sceneVars, tickVars, percVars, optimizerVars, hmrData,
                   currentlyFocusedPlanet, exploreCamera,
                   solarSystemTransformNode, pointerDown, suspended, run>>

\* scene.onPointerMove (Renderer.ts:1209-1215), killAnimations (1179-1182):
\* a.stop() takes each animation of the list off the camera
PointerMove ==
    /\ bodyMesh' = OnPointerMove_capture(pointerDown)
    /\ animations' = IF pointerDown THEN <<>> ELSE animations
    /\ camera' = IF pointerDown
                 THEN [camera EXCEPT !.moves = @ - Len(animations)]
                 ELSE camera
    /\ downMesh' = NoMesh
    /\ gesture' = IF gesture \in {"idle", "cancelled"} THEN gesture ELSE "moved"
    /\ focusChange' = NoChange
    /\ UNCHANGED <<sceneVars, tickVars, percVars, optimizerVars, hmrData,
                   currentlyFocusedPlanet, exploreCamera,
                   solarSystemTransformNode, pointerDown, suspended, run>>

\* whether the pointer-up handler gets past its returns of lines 1220-1246
Confirms(pick) ==
    /\ pick.info
    /\ ResolveMesh(pick) # NoMesh
    /\ bodyMesh # NoMesh
    /\ bodyMesh = ResolveMesh(pick)

\* a slip that starts the zoom animation without awaiting it
PointerUp_noAwait(pick) ==
    /\ pointerDown' = FALSE
    /\ downMesh' = NoMesh
    /\ gesture' = IF gesture = "moved" /\ pick.info /\ ResolveMesh(pick) # NoMesh
                  THEN "cancelled"
                  ELSE "idle"
    /\ IF ~Confirms(pick)
       THEN Commit(World)
       ELSE \E w \in {JumpTo(World, ResolveMesh(pick), downMesh)} : Commit(w)
    /\ UNCHANGED <<solarBodies, onTickCallbacks, percVars, optimizerVars, hmrData,
                   bodyMesh, lastFrame, frames, run, suspended>>

\* a slip that clears the flag only after the test for picking info
PointerUp_lateClear(pick) ==
    /\ pointerDown' = IF pick.info THEN FALSE ELSE pointerDown
    /\ downMesh' = NoMesh
    /\ gesture' = IF gesture = "moved" /\ pick.info /\ ResolveMesh(pick) # NoMesh
                  THEN "cancelled"
                  ELSE "idle"
    /\ IF ~Confirms(pick)
       THEN Commit(World) /\ UNCHANGED suspended
       ELSE IF ~EqualsWithEpsilon(solarSystemTransformNode.scaling, VecOne,
                                  EPSILON_GALAXY)
       THEN /\ Commit(World)
            /\ suspended' = Append(suspended, [mesh |-> ResolveMesh(pick),
                                               down |-> downMesh])
       ELSE /\ \E w \in {JumpTo(World, ResolveMesh(pick), downMesh)} : Commit(w)
            /\ UNCHANGED suspended
    /\ UNCHANGED <<solarBodies, onTickCallbacks, percVars, optimizerVars, hmrData,
                   bodyMesh, lastFrame, frames, run>>

\* scene.onPointerUp (Renderer.ts:1217-1299), up to its await: in galaxy
\* mode the zoom animation is started and the invocation is suspended
PointerUp(pick) ==
    /\ pointerDown' = FALSE
    /\ downMesh' = NoMesh
    /\ gesture' = IF gesture = "moved" /\ pick.info /\ ResolveMesh(pick) # NoMesh
                  THEN "cancelled"
                  ELSE "idle"
    /\ IF ~Confirms(pick)
       THEN Commit(World) /\ UNCHANGED suspended
       ELSE IF ~EqualsWithEpsilon(solarSystemTransformNode.scaling, VecOne,
                                  EPSILON_GALAXY)
       THEN /\ Commit(World)
            /\ suspended' = Append(suspended, [mesh |-> ResolveMesh(pick),
                                               down |-> downMesh])
       ELSE /\ \E w \in {JumpTo(World, ResolveMesh(pick), downMesh)} : Commit(w)
            /\ UNCHANGED suspended
    /\ UNCHANGED <<solarBodies, onTickCallbacks, percVars, optimizerVars, hmrData,
                   bodyMesh, lastFrame, frames, run>>

\* the first n suspended pointer-up invocations resume, oldest first
RECURSIVE Resume(_, _, _)
Resume(w, waiting, n) ==
    IF n = 0 THEN w
    ELSE Resume(JumpTo(w, waiting[1].mesh, waiting[1].down), Tail(waiting), n - 1)

\* the main meshes of the planets, and where they are
PlanetMeshes == DOMAIN orbit
PlanetPositions == [m \in PlanetMeshes |-> sceneMeshes[m].position]

\* One run of the render loop.  delta and animationRatio are what the engine
\* reports, distance[m] the camera's distance to planet m, ended the number
\* of zoom animations (Renderer.ts:1261) that end while the frame is drawn:
\* each leaves camera.radius at its end value and resolves its promise, and
\* the suspended handler goes on when the loop's callback has returned.
\* The values an animation gives the camera before it ends are not modelled.
Frame(delta, animationRatio, distance, ended) ==
    \E looped \in {RunRenderLoop(World, delta, animationRatio, distance)} :
    \E w \in {Resume(IF ended > 0
                      THEN [looped.w EXCEPT !.camera.radius = ZOOM_RADIUS]
                      ELSE looped.w,
                      suspended, ended)} :
        /\ Commit(w)
        /\ suspended' = SubSeq(suspended, ended + 1, Len(suspended))
        /\ lastFrame' = [delta |-> delta, animationRatio |-> animationRatio,
                         calls |-> looped.calls, orbitUsed |-> w.orbitUsed,
                         focused |-> currentlyFocusedPlanet,
                         distance |-> distance,
                         viewportWritten |-> w.viewportWritten]
        /\ frames' = frames + 1
        /\ run' = IF run.ratio = animationRatio
                  THEN [run EXCEPT !.ticks = @ + 1]
                  ELSE [ratio |-> animationRatio, ticks |-> 1,
                        start |-> PlanetPositions]
        /\ UNCHANGED <<solarBodies, onTickCallbacks, pointerDown, bodyMesh,
                       percVars, optimizerVars, hmrData, downMesh, gesture>>

\* the user zooms the default camera with the controls attached at
\* Renderer.ts:171, within its radius limits (172-173)
CameraZoom(radius) ==
    /\ radius # camera.radius
    /\ camera' = [camera EXCEPT !.radius = radius]
    /\ focusChange' = NoChange
    /\ UNCHANGED <<sceneVars, pointerVars, tickVars, percVars, optimizerVars, hmrData,
                   currentlyFocusedPlanet, exploreCamera,
                   solarSystemTransformNode, downMesh, gesture, run>>

\* a call of Renderer.getDistanceRangePercentage with a new sample
CallPercentage(distance) ==
    /\ percPrev' = [distance |-> percArgs.distance, result |-> percResult]
    /\ percArgs' = [percArgs EXCEPT !.distance = distance]
    /\ percResult' = getDistanceRangePercentage(percArgs.startDist,
                                                percArgs.endDist, distance)
    /\ UNCHANGED <<sceneVars, pointerVars, focusVars, tickVars, historyVars,
                   optimizerVars, hmrData>>

(***************************************************************************)
(* The scene optimizer (Renderer.autoOptimizeScene, Renderer.ts:1053-1171). *)
(***************************************************************************)
numberOfCustomOptimizations == 5
\* the hardware scaling levels of the two resolution passes, in hundredths
\* of initialDeviceRatio; the level of the star's texture under god rays
\* (Renderer.ts:399) and its boosted level, in tenths; the exposure tweak in
\* thousandths
FIRST_PASS_SCALING == 150
SECOND_PASS_SCALING == 200
GODRAYS_TEXTURE_LEVEL == 14
BOOSTED_TEXTURE_LEVEL == 100
EXPOSURE_TWEAK == 170

\* what the custom optimizations act on
Quality ==
    [hardwareScalingLevel |-> hardwareScalingLevel, godRays |-> godRays,
     textureLevel |-> textureLevel, renderingPipeline |-> renderingPipeline]

\* the stars' meshes: this.solarBodies.filter(solarBody => solarBody.type
\* === 'star'), read and not changed (Renderer.ts:1106-1112)
StarMeshes ==
    LET stars == FilterType(solarBodies, "star")
    IN  {stars[i].mesh : i \in 1..Len(stars)}

\* a slip that scales the second pass from the level the first pass left
CustomOptimization_cumulative(q, priority) ==
    CASE priority = 0 -> [q EXCEPT !.hardwareScalingLevel = FIRST_PASS_SCALING]
      [] priority = 1 ->
            [q EXCEPT !.hardwareScalingLevel =
                          (@ * SECOND_PASS_SCALING) \div 100]
      [] priority = 2 ->
            [q EXCEPT !.godRays = FALSE,
                      !.textureLevel =
                          [m \in DOMAIN @ |->
                              IF m \in StarMeshes THEN BOOSTED_TEXTURE_LEVEL
                              ELSE @[m]],
                      !.renderingPipeline.exposure = @ + EXPOSURE_TWEAK]
      [] priority = 3 ->
            [q EXCEPT !.renderingPipeline.bloomEnabled = FALSE,
                      !.renderingPipeline.chromaticAberrationEnabled = FALSE]
      [] priority = 4 -> [q EXCEPT !.renderingPipeline.fxaaEnabled = FALSE]

\* the custom optimization registered with the given priority
\* (Renderer.ts:1080-1147)
CustomOptimization(q, priority) ==
    CASE priority = 0 -> [q EXCEPT !.hardwareScalingLevel = FIRST_PASS_SCALING]
      [] priority = 1 -> [q EXCEPT !.hardwareScalingLevel = SECOND_PASS_SCALING]
      [] priority = 2 ->
            [q EXCEPT !.godRays = FALSE,
                      !.textureLevel =
                          [m \in DOMAIN @ |->
                              IF m \in StarMeshes THEN BOOSTED_TEXTURE_LEVEL
                              ELSE @[m]],
                      !.renderingPipeline.exposure = @ + EXPOSURE_TWEAK]
      [] priority = 3 ->
            [q EXCEPT !.renderingPipeline.bloomEnabled = FALSE,
                      !.renderingPipeline.chromaticAberrationEnabled = FALSE]
      [] priority = 4 -> [q EXCEPT !.renderingPipeline.fxaaEnabled = FALSE]

\* SceneOptimizerOptions.ModerateDegradationAllowed (Renderer.ts:1061): the
\* optimizations of the engine's preset with the priorities it gives them
ModerateDegradationAllowed == <<
    [kind |-> "MergeMeshesOptimization", priority |-> 0],
    [kind |-> "ShadowsOptimization", priority |-> 0],
    [kind |-> "LensFlaresOptimization", priority |-> 0],
    [kind |-> "PostProcessesOptimization", priority |-> 1],
    [kind |-> "ParticlesOptimization", priority |-> 1],
    [kind |-> "TextureOptimization", priority |-> 2],
    [kind |-> "RenderTargetsOptimization", priority |-> 3],
    [kind |-> "HardwareScalingOptimization", priority |-> 4] >>

\* the classes the filter of Renderer.ts:1068-1074 keeps
RetainedKinds == {"TextureOptimization", "RenderTargetsOptimization",
                  "HardwareScalingOptimization"}

\* the descriptions of the custom optimizations in the order of their
\* addCustomOptimization calls (Renderer.ts:1080-1147)
CustomDescriptions == <<
    "Reduce resolution - first pass", "Reduce resolution - second pass",
    "Disabling volumetric lighting", "Disabling bloom and chromatic aberration",
    "Disabling anti aliasing" >>

\* options.optimizations as autoOptimizeScene leaves it (Renderer.ts:1067-
\* 1147): the retained optimizations re-numbered from
\* numberOfCustomOptimizations on, then the custom ones, each with the next
\* value of currentCustomOptimizationI
RegisteredOptimizations ==
    LET retained == SelectSeq(ModerateDegradationAllowed,
                              LAMBDA o : o.kind \in RetainedKinds)
        renumbered ==
            [i \in 1..Len(retained) |->
                [retained[i] EXCEPT
                    !.priority = (i - 1) + numberOfCustomOptimizations]]
        custom ==
            [i \in 1..Len(CustomDescriptions) |->
                [kind |-> CustomDescriptions[i], priority |-> i - 1]]
    IN  renumbered \o custom

\* the levels HardwareScalingOptimization may leave after the second pass:
\* one step of 0.25 towards its maximum scale of 2, in hundredths of
\* initialDeviceRatio, for a device pixel ratio of 1 and of 2
EngineScalingLevels == {225, 250}

\* what applying one registered optimization may leave of q: a custom one
\* runs its callback; the engine's own act on texture and render-target
\* sizes, which q does not hold, and on the hardware scaling level
ApplyOptimization(q, o) ==
    IF o.priority < numberOfCustomOptimizations
    THEN {CustomOptimization(q, o.priority)}
    ELSE IF o.kind = "HardwareScalingOptimization"
    THEN {[q EXCEPT !.hardwareScalingLevel = level] :
             level \in EngineScalingLevels}
    ELSE {q}

\* The optimizer finds the frame rate below its target and applies the
\* registered optimization of its current priority level, then moves to the
\* next level (SceneOptimizer, started at Renderer.ts:1149-1169); it stops
\* at a level for which nothing is registered.
OptimizerStep ==
    /\ \E i \in 1..Len(RegisteredOptimizations) :
          /\ RegisteredOptimizations[i].priority = currentPriorityLevel
          /\ \E q \in ApplyOptimization(Quality, RegisteredOptimizations[i]) :
                /\ hardwareScalingLevel' = q.hardwareScalingLevel
                /\ godRays' = q.godRays
                /\ textureLevel' = q.textureLevel
                /\ renderingPipeline' = q.renderingPipeline
          /\ applied' = Append(applied, RegisteredOptimizations[i].kind)
    /\ currentPriorityLevel' = currentPriorityLevel + 1
    /\ focusChange' = NoChange
    /\ UNCHANGED <<sceneVars, pointerVars, focusVars, tickVars, percVars,
                   downMesh, gesture, run, hmrData>>

(***************************************************************************)
(* Initial states.                                                         *)
(***************************************************************************)
NotCalled == [k |-> "none", n |-> 0, d |-> 0]
NoOrbitUse == [centre |-> VecZero, radius |-> VecLength(VecZero)]

\* the index of the first record of the given type
FirstOfType(bodies, type) ==
    CHOOSE i \in 1..Len(bodies) :
        /\ bodies[i].type = type
        /\ \A j \in 1..(i - 1) : bodies[j].type # type

\* module.hot.data before any reload (index.ts:71)
NoHmrData == [reloads |-> 0]

\* the Renderer as its constructor leaves it (Renderer.ts:136-163), before
\* the first frame: the value of each variable
NewRenderer ==
    LET s == initScene
        planets == DOMAIN s.orbit
        firstPlanetMeta == FirstOfType(s.solarBodies, "planet")
    IN  [sceneMeshes |->
             s.meshes,
         solarBodies |->
             s.solarBodies,
         onTickCallbacks |->
             s.onTickCallbacks,
         orbit |->
             s.orbit,
         currentlyFocusedPlanet |->
             firstPlanetMeta,
         camera |->
             [radius |-> 5, target |-> Point(Vec(0, 100, 0), VecOne),
              moves |-> 0],
         exploreCamera |->
             [parent |-> s.solarBodies[firstPlanetMeta].mesh,
                               radius |-> NoMesh, alphaSteps |-> 0,
                               viewport |-> PipViewport, layerMask |-> LAYER_1],
         solarSystemTransformNode |->
             [scaling |-> VecOne, pivot |-> Point(VecZero, VecOne)],
         pointerDown |->
             FALSE,
         animations |->
             <<>>,
         bodyMesh |->
             NoMesh,
         suspended |->
             <<>>,
         exploreCameraVisible |->
             TRUE,
         cloudRotation |->
             [m \in {s.onTickCallbacks[i].mesh :
                             i \in {j \in 1..Len(s.onTickCallbacks) :
                                       s.onTickCallbacks[j].kind = "cloudRotation"}}
                      |-> 0],
         labels |->
             [m \in planets |-> NewLabel],
         lastFrame |->
             [delta |-> 0, animationRatio |-> 0, calls |-> <<>>,
                           orbitUsed |-> [m \in planets |-> NoOrbitUse],
                           focused |-> firstPlanetMeta,
                           distance |-> [m \in planets |-> 0],
                           viewportWritten |-> FALSE],
         frames |->
             0,
         downMesh |->
             NoMesh,
         gesture |->
             "idle",
         focusChange |->
             NoChange,
         run |->
             [ratio |-> 0, ticks |-> 0,
                     start |-> [m \in planets |-> s.meshes[m].position]],
         currentPriorityLevel |->
             0,
         hardwareScalingLevel |->
             100,
         godRays |->
             TRUE,
         textureLevel |->
             [m \in {s.solarBodies[i].mesh :
                             i \in {j \in 1..Len(s.solarBodies) :
                                       s.solarBodies[j].type = "star"}}
                      |-> GODRAYS_TEXTURE_LEVEL],
         renderingPipeline |->
             [exposure |-> 1000, bloomEnabled |-> TRUE,
                   chromaticAberrationEnabled |-> TRUE, fxaaEnabled |-> TRUE],
         applied |->
             <<>>]

\* the state a new Renderer starts in; module.hot.data is still empty
InitRenderer ==
    /\ sceneMeshes = NewRenderer.sceneMeshes
    /\ solarBodies = NewRenderer.solarBodies
    /\ onTickCallbacks = NewRenderer.onTickCallbacks
    /\ orbit = NewRenderer.orbit
    /\ currentlyFocusedPlanet = NewRenderer.currentlyFocusedPlanet
    /\ camera = NewRenderer.camera
    /\ exploreCamera = NewRenderer.exploreCamera
    /\ solarSystemTransformNode = NewRenderer.solarSystemTransformNode
    /\ pointerDown = NewRenderer.pointerDown
    /\ animations = NewRenderer.animations
    /\ bodyMesh = NewRenderer.bodyMesh
    /\ suspended = NewRenderer.suspended
    /\ exploreCameraVisible = NewRenderer.exploreCameraVisible
    /\ cloudRotation = NewRenderer.cloudRotation
    /\ labels = NewRenderer.labels
    /\ lastFrame = NewRenderer.lastFrame
    /\ frames = NewRenderer.frames
    /\ downMesh = NewRenderer.downMesh
    /\ gesture = NewRenderer.gesture
    /\ focusChange = NewRenderer.focusChange
    /\ run = NewRenderer.run
    /\ currentPriorityLevel = NewRenderer.currentPriorityLevel
    /\ hardwareScalingLevel = NewRenderer.hardwareScalingLevel
    /\ godRays = NewRenderer.godRays
    /\ textureLevel = NewRenderer.textureLevel
    /\ renderingPipeline = NewRenderer.renderingPipeline
    /\ applied = NewRenderer.applied
    /\ hmrData = NoHmrData

PercentageIdle ==
    /\ percArgs = [startDist |-> 0, endDist |-> 0, distance |-> 0]
    /\ percResult = NotCalled
    /\ percPrev = [distance |-> 0, result |-> NotCalled]

Init == InitRenderer /\ PercentageIdle

\* the thresholds of the percentage harness are drawn from 0..MaxDist
InitPercentage ==
    /\ InitRenderer
    /\ percArgs \in [startDist : 0..MaxDist, endDist : 0..MaxDist, distance : {0}]
    /\ percResult = NotCalled
    /\ percPrev = [distance |-> 0, result |-> NotCalled]

(***************************************************************************)
(* Hot reload (index.ts:43-91).                                            *)
(***************************************************************************)
\* the snapshot the dispose hook takes of the running renderer
\* (index.ts:47-61); alpha and beta, which nothing in the model changes,
\* are left out
HmrDispose ==
    [defaultCamera |-> [target |-> camera.target, radius |-> camera.radius],
     solarSystemTransformNode |-> [pivot |-> solarSystemTransformNode.pivot]]

\* the accept hook on the new renderer r (index.ts:68-89)
HmrAccept(r, data) ==
    [r EXCEPT !.camera.target = data.defaultCamera.target,
              !.camera.radius = data.defaultCamera.radius,
              !.solarSystemTransformNode.pivot =
                  data.solarSystemTransformNode.pivot]

\* One hot reload: the dispose hook snapshots the camera and the pivot and
\* disposes of the engine, the module is evaluated again and constructs a
\* new Renderer (index.ts:15), and the accept hook restores the snapshot
\* on it.
HotReload ==
    \E data \in {HmrDispose} :
    \E r \in {HmrAccept(NewRenderer, data)} :
        /\ hmrData' = [reloads |-> hmrData.reloads + 1,
                       defaultCamera |-> data.defaultCamera,
                       solarSystemTransformNode |-> data.solarSystemTransformNode]
        /\ sceneMeshes' = r.sceneMeshes
        /\ solarBodies' = r.solarBodies
        /\ onTickCallbacks' = r.onTickCallbacks
        /\ orbit' = r.orbit
        /\ currentlyFocusedPlanet' = r.currentlyFocusedPlanet
        /\ camera' = r.camera
        /\ exploreCamera' = r.exploreCamera
        /\ solarSystemTransformNode' = r.solarSystemTransformNode
        /\ pointerDown' = r.pointerDown
        /\ animations' = r.animations
        /\ bodyMesh' = r.bodyMesh
        /\ suspended' = r.suspended
        /\ exploreCameraVisible' = r.exploreCameraVisible
        /\ cloudRotation' = r.cloudRotation
        /\ labels' = r.labels
        /\ lastFrame' = r.lastFrame
        /\ frames' = r.frames
        /\ downMesh' = r.downMesh
        /\ gesture' = r.gesture
        /\ focusChange' = r.focusChange
        /\ run' = r.run
        /\ currentPriorityLevel' = r.currentPriorityLevel
        /\ hardwareScalingLevel' = r.hardwareScalingLevel
        /\ godRays' = r.godRays
        /\ textureLevel' = r.textureLevel
        /\ renderingPipeline' = r.renderingPipeline
        /\ applied' = r.applied
        /\ UNCHANGED percVars

(***************************************************************************)
(* Specifications.                                                         *)
(***************************************************************************)
\* frames rendered in Spec and in SpecOrbit, and the largest animationRatio
MaxFrames == 2
MaxTicks == 8
MaxRatio == 3
\* the meshes the pointer picks in Spec
PickSample == {"sun", "planet1"}
\* pointer-up invocations suspended at one time, and the length the list
\* of tracked animations may reach
MaxSuspended == 1
MaxAnimations == 4

\* engine.getDeltaTime() for a frame of the given animationRatio, in ms
DeltaOf(animationRatio) == (1000 * animationRatio) \div 60

\* the pickable meshes among those named in sample
PickableAmong(sample) ==
    {m \in 1..Len(sceneMeshes) :
        sceneMeshes[m].name \in sample /\ sceneMeshes[m].isPickable}
PickableMeshes == PickableAmong(PickSample)

\* what a pointer event may report: a picked mesh, a hit without a mesh, or
\* no hit with the main camera's pick finding a mesh or nothing
PicksOf(pickable) ==
    [info : {TRUE}, pickedMesh : pickable, hit : {TRUE}, fallback : {NoMesh}]
    \cup [info : {TRUE}, pickedMesh : {NoMesh}, hit : {TRUE}, fallback : {NoMesh}]
    \cup [info : {TRUE}, pickedMesh : {NoMesh}, hit : {FALSE},
          fallback : pickable \cup {NoMesh}]
Picks == PicksOf(PickableMeshes)

\* a pointer-up may also come without picking info (Renderer.ts:1220)
NoPickingInfo ==
    [info |-> FALSE, pickedMesh |-> NoMesh, hit |-> FALSE, fallback |-> NoMesh]

\* the camera radii the model samples
ZoomRadii == {5, 250}

\* the camera-to-planet distance the frames of Spec and SpecOrbit report
FrameDistance == [m \in PlanetMeshes |-> 50]

OnPointerDown == \E pick \in Picks : PointerDown(pick)
OnPointerMove == PointerMove
\* a pointer-up while fewer than limit invocations are suspended
PointerUpWithin(limit) ==
    /\ Len(animations) + Len(CameraMoves) <= MaxAnimations
    /\ Len(suspended) < limit
    /\ \E pick \in Picks \cup {NoPickingInfo} : PointerUp(pick)
OnPointerUp == PointerUpWithin(MaxSuspended)
UserZoom == \E radius \in ZoomRadii : CameraZoom(radius)
RenderFrame ==
    /\ frames < MaxFrames
    /\ \E ended \in 0..Len(suspended) :
          /\ Len(animations) + ended * Len(CameraMoves) <= MaxAnimations
          /\ Frame(DeltaOf(1), 1, FrameDistance, ended)

Next == OnPointerDown \/ OnPointerMove \/ OnPointerUp \/ UserZoom \/ RenderFrame

Spec == Init /\ [][Next]_vars

OrbitFrame ==
    /\ frames < MaxTicks
    /\ \E animationRatio \in 1..MaxRatio :
          Frame(DeltaOf(animationRatio), animationRatio, FrameDistance, 0)

NextOrbit == OrbitFrame

\* the camera radii and the camera-to-planet distances of SpecView: the
\* radius limits 3 and 400 (Renderer.ts:172-173), the thresholds of the
\* galaxy scale and of the label fades, and values between them
ViewRadii == {3, 100, 108, 120, 250, 400}
ViewDistances == {0, 30, 40, 50, 55, 60, 70, 80, 90}

ViewZoom == \E radius \in ViewRadii : CameraZoom(radius)
ViewFrame ==
    /\ frames < MaxFrames
    /\ \E distance \in ViewDistances :
          Frame(DeltaOf(1), 1, [m \in PlanetMeshes |-> distance], 0)

NextView == ViewZoom \/ ViewFrame

SpecView == Init /\ [][NextView]_vars

SpecOrbit == Init /\ [][NextOrbit]_vars

\* Spec with room for a second pointer-up invocation to be suspended while
\* the first waits for its zoom animation
MaxPending == 2
OnPointerUpPending == PointerUpWithin(MaxPending)

NextPending ==
    \/ OnPointerDown \/ OnPointerMove \/ OnPointerUpPending
    \/ UserZoom \/ RenderFrame

SpecPending == Init /\ [][NextPending]_vars

\* The pointer on a planet whose LOD sphere may be the mesh that is picked:
\* the LOD spheres are pickable like the main spheres (Renderer.ts:717-724
\* leave isPickable at its default).  The camera stays in the local system.
LodSample == {"planet1", "planet1_lod_0.01"}
LodPicks == PicksOf(PickableAmong(LodSample))
OnPointerDownLod == \E pick \in LodPicks : PointerDown(pick)
OnPointerUpLod ==
    /\ Len(animations) + Len(CameraMoves) <= MaxAnimations
    /\ \E pick \in LodPicks \cup {NoPickingInfo} : PointerUp(pick)

NextLod == OnPointerDownLod \/ OnPointerMove \/ OnPointerUpLod \/ RenderFrame

SpecLod == Init /\ [][NextLod]_vars

\* The running renderer with the pointer on the star and on a planet other
\* than the one the explore camera starts on
ExploreSample == {"sun", "planet2"}
ExplorePicks == PicksOf(PickableAmong(ExploreSample))
OnPointerDownExplore == \E pick \in ExplorePicks : PointerDown(pick)
OnPointerUpExplore ==
    /\ Len(animations) + Len(CameraMoves) <= MaxAnimations
    /\ Len(suspended) < MaxSuspended
    /\ \E pick \in ExplorePicks \cup {NoPickingInfo} : PointerUp(pick)

NextExplore ==
    \/ OnPointerDownExplore
    \/ OnPointerMove
    \/ OnPointerUpExplore
    \/ UserZoom
    \/ RenderFrame

SpecExplore == Init /\ [][NextExplore]_vars

\* A development session: the renderer runs, the module is reloaded at most
\* MaxReloads times, and after a reload frames are rendered again
MaxReloads == 1
BeforeReload == hmrData.reloads = 0 /\ Next
Reload == hmrData.reloads < MaxReloads /\ HotReload
FrameAfterReload == hmrData.reloads > 0 /\ RenderFrame

NextHmr == BeforeReload \/ Reload \/ FrameAfterReload

SpecHmr == Init /\ [][NextHmr]_vars

\* the handlers, the frames and the optimizer about the list of bodies, the
\* camera staying within the local system
NextBodies ==
    OnPointerDown \/ OnPointerMove \/ OnPointerUp \/ RenderFrame \/ OptimizerStep

SpecBodies == Init /\ [][NextBodies]_vars

SamplePercentage ==
    \E distance \in (0 - DistMargin)..(MaxDist + DistMargin) :
        CallPercentage(distance)

NextPercentage == SamplePercentage

SpecPercentage == InitPercentage /\ [][NextPercentage]_vars

(***************************************************************************)
(* Properties.                                                             *)
(***************************************************************************)
\* C1 (the claim as stated): every focus change is confirmed by a pointer-up
\* on the mesh M that the pointer-down just before it picked, no other
\* pointer-down, pointer-up or pointer-move-while-down lying in between:
\* the mesh of a focus change is the mesh of that pointer-down.
C1_FocusChangeOnlyAfterMatchingDown ==
    focusChange.mesh # NoMesh => focusChange.down = focusChange.mesh

C3_CallbacksInOrderThenRender ==
    frames > 0 =>
        lastFrame.calls =
            [i \in 1..(Len(onTickCallbacks) + 1) |->
                [cb |-> IF i <= Len(onTickCallbacks) THEN i ELSE RenderCall,
                 delta |-> lastFrame.delta,
                 animationRatio |-> lastFrame.animationRatio]]

\* C3 witness: a second frame, of another animationRatio than the first,
\* has run the fifteen callbacks and rendered
C3_Witness ==
    /\ frames >= 2
    /\ run.ticks = 1
    /\ Len(lastFrame.calls) = 16
    /\ lastFrame.animationRatio > 1

\* C4: for start < end the result is clamp((value-start)/(end-start), 0, 1):
\* 0 up to start, 1 from end on, the exact quotient in between, and so
\* always within [0, 1].
C4_PercentageIsClampedQuotient ==
    (percResult # NotCalled /\ percArgs.startDist < percArgs.endDist) =>
        /\ percResult.k = "num"
        /\ 0 <= percResult.n /\ percResult.n <= percResult.d
        /\ percArgs.distance <= percArgs.startDist => percResult.n = 0
        /\ percArgs.distance >= percArgs.endDist => percResult.n = percResult.d
        /\ (percArgs.startDist < percArgs.distance
              /\ percArgs.distance < percArgs.endDist) =>
             percResult.n * (percArgs.endDist - percArgs.startDist)
               = (percArgs.distance - percArgs.startDist) * percResult.d

\* C4 witness: a sample strictly between the thresholds gave a result
\* strictly between 0 and 1
C4_Witness ==
    /\ percResult.k = "num"
    /\ percArgs.startDist < percArgs.distance
    /\ percArgs.distance < percArgs.endDist
    /\ 0 < percResult.n /\ percResult.n < percResult.d

\* C5: for start < end the result is non-decreasing in the sample: of two
\* successive samples, the one with the smaller value has the smaller (or
\* the same) result.
C5_PercentageIsMonotone ==
    (percResult # NotCalled /\ percPrev.result # NotCalled
        /\ percArgs.startDist < percArgs.endDist) =>
        /\ percPrev.distance <= percArgs.distance =>
              NumLE(percPrev.result, percResult)
        /\ percArgs.distance <= percPrev.distance =>
              NumLE(percResult, percPrev.result)

\* C5 witness: two samples between the thresholds, the second larger, with
\* a strictly larger result
C5_Witness ==
    /\ percPrev.result # NotCalled
    /\ percArgs.startDist < percPrev.distance
    /\ percPrev.distance < percArgs.distance
    /\ percArgs.distance < percArgs.endDist
    /\ NumLT(percPrev.result, percResult)

\* C6 (the claim as stated): with start = end the call raises an error; it
\* returns no number, NaN or value clamped from an infinity.
C6_EqualThresholdsRaise ==
    (percResult # NotCalled /\ percArgs.startDist = percArgs.endDist) =>
        percResult.k = "error"

\* C7: solarBodies holds one record per configured body, in configuration
\* order (the star, then the five planets), each owning the main sphere of
\* its body, in every state the handlers and the frames reach.
C7_SolarBodiesFixed ==
    /\ Len(solarBodies) = Len(solarBodyConfigs)
    /\ \A i \in 1..Len(solarBodyConfigs) :
          /\ solarBodies[i].name = solarBodyConfigs[i].friendlyName
          /\ solarBodies[i].type = solarBodyConfigs[i].type
          /\ solarBodies[i].type = (IF i = 1 THEN "star" ELSE "planet")
          /\ sceneMeshes[solarBodies[i].mesh].name
                = solarBodyConfigs[i].inspectorName

\* C7 witness: frames have run, a pointer-up has changed the focus and the
\* optimizer has applied its five steps, and the list has its six records
C7_Witness ==
    /\ frames > 0
    /\ Len(animations) > 0
    /\ currentlyFocusedPlanet # FirstOfType(solarBodies, "planet")
    /\ currentPriorityLevel = numberOfCustomOptimizations
    /\ Len(solarBodies) = 6

\* C8: no two meshes of the scene have the same name.
C8_MeshNamesUnique ==
    \A i, j \in 1..Len(sceneMeshes) :
        i # j => sceneMeshes[i].name # sceneMeshes[j].name

\* C8 witness: the scene holds its 19 meshes, among them the skybox, LOD
\* spheres and cloud layers, after frames have been rendered
C8_Witness ==
    /\ frames > 0
    /\ Len(sceneMeshes) = 19
    /\ {"skyBox", "sun", "planet3_lod_0.01", "planet3_lod_0.001",
        "planet4_clouds", "planet5_clouds"}
          \subseteq {sceneMeshes[i].name : i \in 1..Len(sceneMeshes)}

\* C9: on every tick each planet's orbit is recomputed around the sun's
\* position of registration time (the star's configured position) with the
\* planet-to-sun distance of registration time as its radius.
C9_OrbitAroundRegisteredSun ==
    frames > 0 =>
        \A i \in 2..Len(solarBodyConfigs) :
            LET used == lastFrame.orbitUsed[solarBodies[i].mesh]
                sunAtRegistration == VecAdd(VecZero, solarBodyConfigs[1].offset)
            IN  /\ used.centre = sunAtRegistration
                /\ used.radius =
                     VecLength(VecSubtract(solarBodyConfigs[i].offset,
                                           sunAtRegistration))

\* C9 witness: after two ticks the planets have left their places
C9_Witness ==
    /\ frames >= 2
    /\ \A m \in PlanetMeshes : sceneMeshes[m].position # run.start[m]
    /\ \A m \in PlanetMeshes : lastFrame.orbitUsed[m] # NoOrbitUse

\* C10: after a run of 2*pi/step frames of one animationRatio, step being
\* piStep * animationRatio, every planet is where it was when the run began.
C10_OrbitPeriodic ==
    run.ticks * run.ratio = StepsPerTurn => PlanetPositions = run.start

\* C10 witness: a full turn made of more than one equal tick that began
\* after an earlier frame had moved the planets
C10_Witness ==
    /\ run.ticks > 1
    /\ run.ticks * run.ratio = StepsPerTurn
    /\ frames > run.ticks

\* C11 (the claim as stated): at no time are two invocations of the
\* pointer-up handler suspended on the camera-zoom animation together.
C11_SingleFlow ==
    Len(suspended) <= 1

\* what a pointer event reports when nothing is picked: no picking info, or
\* no picked mesh and either a hit or nothing found by the fallback pick
NothingPicked(pick) ==
    \/ ~pick.info
    \/ pick.pickedMesh = NoMesh /\ (pick.hit \/ pick.fallback = NoMesh)

\* C12: a pointer-down or pointer-up that picks nothing (or a pointer-up
\* without picking info) starts no animation and leaves
\* currentlyFocusedPlanet, the explore camera's parent and the pivot as they
\* were; a frame whose focus-tracking tick finds no focused body leaves the
\* camera target and the pivot as they were; a label tick without a
\* default camera leaves the label as it was.
C12_MissingInputsAreNoOps ==
    [][ /\ \A pick \in LodPicks \cup {NoPickingInfo} :
             (NothingPicked(pick) /\ (PointerDown(pick) \/ PointerUp(pick)))
             => /\ animations' = animations
                /\ suspended' = suspended
                /\ currentlyFocusedPlanet' = currentlyFocusedPlanet
                /\ exploreCamera'.parent = exploreCamera.parent
                /\ solarSystemTransformNode'.pivot = solarSystemTransformNode.pivot
        /\ (frames' = frames + 1 /\ currentlyFocusedPlanet = Undefined
               /\ suspended = <<>>)
             => /\ camera'.target = camera.target
                /\ solarSystemTransformNode'.pivot = solarSystemTransformNode.pivot
        /\ \A m \in PlanetMeshes :
             TickPlanetLabel([World EXCEPT !.defaultCamera = FALSE], m,
                             FrameDistance[m]).labels = labels ]_vars

\* C12 witness: nothing is in focus, a frame has run its focus-tracking
\* tick without a focused body, and the last pointer event was a
\* pointer-down that picked nothing while a mesh was captured
C12_Witness ==
    /\ frames > 0
    /\ lastFrame.focused = Undefined
    /\ currentlyFocusedPlanet = Undefined
    /\ gesture = "pressed"
    /\ downMesh = NoMesh
    /\ bodyMesh # NoMesh

\* C13 (the claim as stated): once the module has been reloaded and frames
\* are rendered again, the default camera's target and radius and the
\* transform node's pivot are the values the dispose hook snapshotted.
C13_HmrRoundTrip ==
    (hmrData.reloads > 0 /\ frames > 0) =>
        /\ camera.target = hmrData.defaultCamera.target
        /\ camera.radius = hmrData.defaultCamera.radius
        /\ solarSystemTransformNode.pivot
              = hmrData.solarSystemTransformNode.pivot

\* galaxy-scaling mode as the handlers test it (Renderer.ts:1259)
GalaxyMode ==
    ~EqualsWithEpsilon(solarSystemTransformNode.scaling, VecOne, EPSILON_GALAXY)

\* C14: a pointer-up that confirms a mesh in galaxy mode only suspends the
\* handler on the zoom animation and changes neither the focus, the tracked
\* animations nor the explore camera; the focus change is made in a later
\* frame, when that animation has ended with the radius at 95.  Outside
\* galaxy mode the confirming pointer-up makes the focus change itself.
C14_ZoomBeforeFocusChange ==
    [][ /\ \A pick \in Picks :
             (PointerUp(pick) /\ Confirms(pick)) =>
                IF GalaxyMode
                THEN /\ suspended' = Append(suspended,
                                            [mesh |-> ResolveMesh(pick),
                                             down |-> downMesh])
                     /\ currentlyFocusedPlanet' = currentlyFocusedPlanet
                     /\ animations' = animations
                     /\ exploreCamera' = exploreCamera
                     /\ focusChange' = NoChange
                ELSE /\ suspended' = suspended
                     /\ currentlyFocusedPlanet'
                           = CorrespondingSolarBody(ResolveMesh(pick))
                     /\ (currentlyFocusedPlanet' # currentlyFocusedPlanet
                           => animations' = animations \o CameraMoves)
        /\ (frames' = frames /\ GalaxyMode) =>
                /\ currentlyFocusedPlanet' = currentlyFocusedPlanet
                /\ exploreCamera'.parent = exploreCamera.parent
                /\ Len(animations') <= Len(animations)
        /\ (frames' = frames + 1 /\ focusChange'.mesh # NoMesh) =>
                /\ suspended # <<>>
                /\ Len(suspended') < Len(suspended)
                /\ focusChange'.mesh \in {suspended[i].mesh :
                                            i \in 1..Len(suspended)}
                /\ camera'.radius = ZOOM_RADIUS ]_vars

\* C14 witness: a suspended pointer-up has gone on after its zoom animation
\* and changed the focus, the scale being that of galaxy mode still
C14_Witness ==
    /\ focusChange.mesh # NoMesh
    /\ GalaxyMode
    /\ camera.radius = ZOOM_RADIUS
    /\ suspended = <<>>
    /\ Len(animations) = Len(CameraMoves)

\* the scale the galaxy-scaling tick gives a freshly built scene whose
\* camera has the given radius
FreshGalaxyScale(radius) ==
    TickGalaxyScaling(
        [World EXCEPT !.camera = [NewRenderer.camera EXCEPT !.radius = radius],
                      !.node = NewRenderer.solarSystemTransformNode,
                      !.exploreCamera = NewRenderer.exploreCamera,
                      !.visible = NewRenderer.exploreCameraVisible,
                      !.focused = NewRenderer.currentlyFocusedPlanet]
    ).node.scaling

\* C15: after the galaxy-scaling tick of a frame the scale of the solar
\* system node is uniform and lies in [0.01, 1]; it is the scale any scene
\* gets at that camera radius, 1 up to radius 100, 0.01 from radius 400 on,
\* and no larger than the scale at any smaller radius.
C15_GalaxyScaleOfRadius ==
    [][ frames' = frames + 1 =>
          LET scaling == solarSystemTransformNode'.scaling
              radius == camera.radius
          IN  /\ scaling[1] = scaling[2] /\ scaling[2] = scaling[3]
              /\ Unit \div 100 <= scaling[1] /\ scaling[1] <= Unit
              /\ scaling = FreshGalaxyScale(radius)
              /\ radius <= GalaxyControl.start => scaling[1] = Unit
              /\ radius >= GalaxyControl.end => scaling[1] = Unit \div 100
              /\ \A other \in ViewRadii :
                    other <= radius =>
                       FreshGalaxyScale(other)[1] >= scaling[1] ]_vars

\* C15 witness: a frame has run at a radius strictly between the two
\* thresholds and left a scale strictly between 0.01 and 1
C15_Witness ==
    /\ frames > 0
    /\ camera.radius > GalaxyControl.start
    /\ camera.radius < GalaxyControl.end
    /\ solarSystemTransformNode.scaling[1] < Unit
    /\ solarSystemTransformNode.scaling[1] > Unit \div 100
    /\ ~exploreCameraVisible

\* x / baseX = y / baseY on exact numbers
SameShare(x, baseX, y, baseY) == x.n * y.d * baseY = y.n * x.d * baseX

\* C16: after the label ticks of a frame, for every planet the alpha of the
\* label rectangle equals that of its line and lies in [0, 1], being 1 up to
\* distance 40 and 0 from distance 60 on; font size, width, height and link
\* offset are their base values times one share 1 - p with p in [0, 1], and
\* are all 0 from distance 80 on.
C16_LabelFade ==
    frames > 0 =>
            \A m \in PlanetMeshes :
              LET label == labels[m]
                  distance == lastFrame.distance[m]
              IN  /\ label.rectAlpha = label.lineAlpha
                  /\ NumLE(Whole(0), label.rectAlpha)
                  /\ NumLE(label.rectAlpha, Whole(1))
                  /\ distance <= LabelOpts.opacityDistanceControl.start
                        => label.rectAlpha = Whole(1)
                  /\ distance >= LabelOpts.opacityDistanceControl.end
                        => label.rectAlpha = Whole(0)
                  /\ NumLE(Whole(0), label.fontSize)
                  /\ NumLE(label.fontSize, Whole(LabelOpts.fontSize))
                  /\ SameShare(label.fontSize, LabelOpts.fontSize,
                               label.width, LabelOpts.rect1Width)
                  /\ SameShare(label.fontSize, LabelOpts.fontSize,
                               label.height, LabelOpts.rect1Height)
                  /\ SameShare(label.fontSize, LabelOpts.fontSize,
                               label.linkOffsetY, LabelOpts.linkOffsetY)
                  /\ distance >= LabelOpts.sizeDistanceControl.end
                        => /\ label.fontSize = Whole(0)
                           /\ label.width = Whole(0)
                           /\ label.height = Whole(0)
                           /\ label.linkOffsetY = Whole(0)

\* C16 witness: a frame has left every label half faded and shrunk to
\* three eighths of its base size
C16_Witness ==
    /\ frames > 0
    /\ \A m \in PlanetMeshes :
          /\ lastFrame.distance[m] = 50
          /\ labels[m].lineAlpha = Num(1, 2)
          /\ labels[m].fontSize = Num(3 * LabelOpts.fontSize, 8)
          /\ labels[m].linkOffsetY = Num(3 * LabelOpts.linkOffsetY, 8)

\* the phases of a planet as registerPlanetOrbitRotation computes them
RegisteredPhase(m) == NewRenderer.orbit[m]

\* the distance between two phases in piStep units, when they are the same
\* inverse-trig value moved by whole steps
StepsFrom(a, b) == b.steps - a.steps

\* C17: every orbit tick advances the three phases of a planet by the one
\* increment piStep * animationRatio, and so the phases of the x, z and y
\* axes stay as far from one another as they were at registration, whatever
\* ratios the frames had.
C17_PhasesAdvanceTogether ==
    [][ \A m \in PlanetMeshes :
          /\ frames' = frames + 1 =>
                /\ orbit'[m].currentCosPi
                      = AngleAdd(orbit[m].currentCosPi,
                                 lastFrame'.animationRatio)
                /\ orbit'[m].currentSinPi
                      = AngleAdd(orbit[m].currentSinPi,
                                 lastFrame'.animationRatio)
                /\ orbit'[m].currentTiltPi
                      = AngleAdd(orbit[m].currentTiltPi,
                                 lastFrame'.animationRatio)
          /\ StepsFrom(RegisteredPhase(m).currentCosPi,
                       orbit'[m].currentCosPi)
               = StepsFrom(RegisteredPhase(m).currentSinPi,
                           orbit'[m].currentSinPi)
          /\ StepsFrom(RegisteredPhase(m).currentSinPi,
                       orbit'[m].currentSinPi)
               = StepsFrom(RegisteredPhase(m).currentTiltPi,
                           orbit'[m].currentTiltPi)
          /\ orbit'[m].currentCosPi.arg = RegisteredPhase(m).currentCosPi.arg
          /\ orbit'[m].currentSinPi.arg = RegisteredPhase(m).currentSinPi.arg
          /\ orbit'[m].currentTiltPi.arg
               = RegisteredPhase(m).currentTiltPi.arg ]_vars

\* C17 witness: frames of two different ratios have advanced the phases
C17_Witness ==
    /\ frames > 1
    /\ run.ticks = 1
    /\ \A m \in PlanetMeshes :
          /\ orbit[m].currentTiltPi.steps > frames * run.ratio
          /\ orbit[m].currentCosPi.steps = orbit[m].currentTiltPi.steps

\* C18: the focus-tracking tick of a frame, which runs after the galaxy
\* scaling tick and before the render, leaves the camera target and the
\* pivot point alone when the scale it finds is that of galaxy mode;
\* otherwise, a body being focused, it leaves the camera target at the
\* absolute position that body had before the frame and the pivot point at
\* the camera target.  Frames in which a suspended pointer-up goes on to
\* change the focus are left aside.
C18_FocusTrackingOutsideGalaxyMode ==
    [][ (frames' = frames + 1 /\ focusChange'.mesh = NoMesh) =>
          IF ~EqualsWithEpsilon(solarSystemTransformNode'.scaling, VecOne,
                                EPSILON_GALAXY)
          THEN /\ camera'.target = camera.target
               /\ solarSystemTransformNode'.pivot
                     = solarSystemTransformNode.pivot
          ELSE currentlyFocusedPlanet # Undefined =>
                 /\ camera'.target
                       = sceneMeshes[solarBodies[currentlyFocusedPlanet].mesh]
                           .absolutePosition
                 /\ solarSystemTransformNode'.pivot = camera'.target ]_vars

\* C18 witness: outside galaxy mode a frame has brought the camera target
\* and the pivot point to a body focused by a pointer-up
C18_Witness ==
    /\ frames > 0
    /\ ~GalaxyMode
    /\ focusChange.mesh = NoMesh
    /\ lastFrame.focused # NewRenderer.currentlyFocusedPlanet
    /\ lastFrame.focused # Undefined
    /\ camera.target # NewRenderer.camera.target
    /\ solarSystemTransformNode.pivot = camera.target

C20_FocusIsSolarBody ==
    /\ currentlyFocusedPlanet \in 1..Len(solarBodies)
    /\ currentlyFocusedPlanet # Undefined

\* C21: a step that makes one focus change re-parents the explore camera to
\* the newly focused mesh and takes its radius from that mesh exactly when
\* the layer mask of the mesh overlaps that of the explore camera; a focus
\* change to the star leaves the parent and the radius of the explore
\* camera alone, no other step touches them, and the parent of the explore
\* camera is never a star.
C21_ExploreCameraFollowsPlanets ==
    [][ /\ (focusChange'.mesh # NoMesh
             /\ Len(suspended) - Len(suspended') <= 1) =>
              IF LayerAnd(sceneMeshes[focusChange'.mesh].layerMask,
                          exploreCamera.layerMask) # {}
              THEN /\ exploreCamera'.parent = focusChange'.mesh
                   /\ exploreCamera'.radius = focusChange'.mesh
              ELSE /\ exploreCamera'.parent = exploreCamera.parent
                   /\ exploreCamera'.radius = exploreCamera.radius
        /\ (focusChange'.mesh \in StarMeshes
             /\ Len(suspended) - Len(suspended') <= 1) =>
              /\ exploreCamera'.parent = exploreCamera.parent
              /\ exploreCamera'.radius = exploreCamera.radius
        /\ focusChange'.mesh = NoMesh =>
              /\ exploreCamera'.parent = exploreCamera.parent
              /\ exploreCamera'.radius = exploreCamera.radius
        /\ exploreCamera'.layerMask = LAYER_1
        /\ exploreCamera'.parent \notin StarMeshes ]_vars

\* C21 witness: the explore camera was moved to a second planet by a focus
\* change, and a later focus change to the star has just left it there
C21_Witness ==
    /\ focusChange.mesh \in StarMeshes
    /\ currentlyFocusedPlanet # Undefined
    /\ solarBodies[currentlyFocusedPlanet].type = "star"
    /\ exploreCamera.parent # NewRenderer.exploreCamera.parent
    /\ exploreCamera.radius = exploreCamera.parent
    /\ sceneMeshes[exploreCamera.parent].name \in ExploreSample

\* whether a scale is that of the local system as the galaxy-scaling tick
\* tests it (Renderer.ts:980)
ShowsExploreCamera(scaling) ==
    EqualsWithEpsilon(scaling, VecOne, EPSILON_VIEWPORT)

\* C22: after the galaxy-scaling tick of a frame the viewport of the explore
\* camera is the picture-in-picture rectangle of the initialization when
\* the scale is within 0.001 of 1 and the collapsed rectangle otherwise,
\* and the tick has made a new viewport exactly when that condition differs
\* from the one the tick before it found.
C22_ViewportFollowsScale ==
    [][ frames' = frames + 1 =>
          /\ exploreCamera'.viewport
                = IF ShowsExploreCamera(solarSystemTransformNode'.scaling)
                  THEN NewRenderer.exploreCamera.viewport
                  ELSE [x |-> 0, y |-> 0, w |-> 1, h |-> 1]
          /\ lastFrame'.viewportWritten
                <=> (ShowsExploreCamera(solarSystemTransformNode'.scaling)
                       # ShowsExploreCamera(solarSystemTransformNode.scaling))
          /\ ~lastFrame'.viewportWritten
                => exploreCamera'.viewport = exploreCamera.viewport ]_vars

\* C22 witness: a frame in galaxy scale has followed another one and left
\* the collapsed viewport without writing it again
C22_Witness ==
    /\ frames > 1
    /\ ~ShowsExploreCamera(solarSystemTransformNode.scaling)
    /\ ~lastFrame.viewportWritten
    /\ exploreCamera.viewport = CollapsedViewport
    /\ ~exploreCameraVisible

\* the places of the callbacks of a kind in the registration order
CallbacksOfKind(kind) ==
    {i \in 1..Len(onTickCallbacks) : onTickCallbacks[i].kind = kind}

\* the places in the calls of a frame at which a callback was called
CallsOf(calls, cb) == {i \in 1..Len(calls) : calls[i].cb = cb}

\* C23: the focus-tracking callback is the last one registered and the
\* galaxy-scaling callback comes before it, in every frame the second is
\* called before the first, and whether the focus-tracking tick of a frame
\* moves the camera target is decided by the scale that belongs to the
\* camera radius of that frame, not by the scale the frame before left.
\* Frames in which a suspended pointer-up goes on to change the focus are
\* left aside.
C23_FocusTickReadsFreshScale ==
    [][ /\ CallbacksOfKind("focusTracking") = {Len(onTickCallbacks)}
        /\ \A g \in CallbacksOfKind("galaxyScaling") :
              g < Len(onTickCallbacks)
        /\ CallbacksOfKind("galaxyScaling") # {}
        /\ frames' = frames + 1 =>
              \A g \in CallbacksOfKind("galaxyScaling") :
              \A f \in CallbacksOfKind("focusTracking") :
                 /\ CallsOf(lastFrame'.calls, g) # {}
                 /\ CallsOf(lastFrame'.calls, f) # {}
                 /\ \A i \in CallsOf(lastFrame'.calls, g) :
                    \A j \in CallsOf(lastFrame'.calls, f) : i < j
        /\ (/\ frames' = frames + 1
             /\ focusChange'.mesh = NoMesh
             /\ currentlyFocusedPlanet # Undefined) =>
              IF EqualsWithEpsilon(FreshGalaxyScale(camera.radius), VecOne,
                                   EPSILON_GALAXY)
              THEN camera'.target
                     = sceneMeshes[solarBodies[currentlyFocusedPlanet].mesh]
                         .absolutePosition
              ELSE camera'.target = camera.target ]_vars

\* C23 witness: a frame that began with the scale of galaxy mode and a
\* camera zoomed back in has shown the explore camera again and moved the
\* camera target to the focused body
C23_Witness ==
    /\ frames > 1
    /\ lastFrame.viewportWritten
    /\ ShowsExploreCamera(solarSystemTransformNode.scaling)
    /\ focusChange.mesh = NoMesh
    /\ currentlyFocusedPlanet # Undefined
    /\ camera.target # NewRenderer.camera.target
    /\ solarSystemTransformNode.pivot = camera.target

\* C24: a pointer-move while the pointer is down leaves the list of tracked
\* animations empty and no camera-move animation running on the camera,
\* and changes neither the focus nor the explore camera; a pointer-move
\* while the pointer is not down changes neither the captured mesh nor the
\* list nor the animations running.  At all times every running camera
\* move is one of the list.
C24_MoveStopsTrackedAnimations ==
    [][ /\ PointerMove =>
              IF pointerDown
              THEN /\ animations' = <<>>
                   /\ camera'.moves = 0
                   /\ bodyMesh' = NoMesh
                   /\ currentlyFocusedPlanet' = currentlyFocusedPlanet
                   /\ exploreCamera' = exploreCamera
              ELSE /\ bodyMesh' = bodyMesh
                   /\ animations' = animations
                   /\ camera' = camera
        /\ camera'.moves = Len(animations') ]_vars

\* C24 witness: after a focus change that moved the explore camera, a
\* pointer-move with the pointer down has left no animation tracked or
\* running, the focus and the explore camera staying where the change put
\* them
C24_Witness ==
    /\ gesture = "moved"
    /\ pointerDown
    /\ bodyMesh = NoMesh
    /\ animations = <<>>
    /\ camera.moves = 0
    /\ currentlyFocusedPlanet # Undefined
    /\ currentlyFocusedPlanet # NewRenderer.currentlyFocusedPlanet
    /\ exploreCamera.parent = solarBodies[currentlyFocusedPlanet].mesh
    /\ exploreCamera.parent # NewRenderer.exploreCamera.parent

\* C25: the pointerDown flag is set exactly when the last pointer-down or
\* pointer-up event was a pointer-down, whatever the events picked and
\* whether or not a pointer-up handler is suspended or has gone on since.
C25_FlagFollowsLastButtonEvent ==
    pointerDown <=> gesture \in {"pressed", "moved"}

\* C25 witness: the pointer was pressed again while a pointer-up handler
\* was suspended, and the flag is still set after that handler has gone on
\* and changed the focus
C25_Witness ==
    /\ pointerDown
    /\ gesture = "pressed"
    /\ frames > 0
    /\ focusChange.mesh # NoMesh
    /\ suspended = <<>>

\* the registered optimizations of a kind
RegisteredAs(kind) ==
    {i \in 1..Len(RegisteredOptimizations) :
        RegisteredOptimizations[i].kind = kind}

\* C26: the registered optimizations have pairwise distinct priorities, the
\* five custom ones 0 to 4 in the order resolution x1.5, resolution x2, god
\* rays off with the star boosted, bloom and chromatic aberration off, FXAA
\* off, and the engine's retained ones 5 and more; the optimizer has always
\* applied exactly the optimizations below its current level, in the order
\* of their priorities; and the hardware scaling level is 1.5 times the
\* initial device ratio after the first pass and 2 times it, not 3 times,
\* after the second.
C26_OptimizerOrder ==
    /\ \A i, j \in 1..Len(RegisteredOptimizations) :
          i # j => RegisteredOptimizations[i].priority
                     # RegisteredOptimizations[j].priority
    /\ \A k \in 1..Len(CustomDescriptions) :
          /\ RegisteredAs(CustomDescriptions[k]) # {}
          /\ \A i \in RegisteredAs(CustomDescriptions[k]) :
                RegisteredOptimizations[i].priority = k - 1
    /\ \A kind \in RetainedKinds :
          /\ RegisteredAs(kind) # {}
          /\ \A i \in RegisteredAs(kind) :
                RegisteredOptimizations[i].priority >= 5
    /\ Len(applied) = currentPriorityLevel
    /\ \A k \in 1..Len(applied) :
          \A i \in RegisteredAs(applied[k]) :
             RegisteredOptimizations[i].priority = k - 1
    /\ Len(applied) = 0 => hardwareScalingLevel = 100
    /\ Len(applied) = 1 => hardwareScalingLevel = 150
    /\ (Len(applied) >= 2
         /\ \A k \in 1..Len(applied) :
               applied[k] # "HardwareScalingOptimization")
          => hardwareScalingLevel = 200
    /\ godRays <=> Len(applied) < 3
    /\ \A m \in DOMAIN textureLevel :
          textureLevel[m] = IF Len(applied) < 3 THEN 14 ELSE 100
    /\ renderingPipeline.exposure = IF Len(applied) < 3 THEN 1000 ELSE 1170
    /\ renderingPipeline.bloomEnabled <=> Len(applied) < 4
    /\ renderingPipeline.chromaticAberrationEnabled <=> Len(applied) < 4
    /\ renderingPipeline.fxaaEnabled <=> Len(applied) < 5

\* C26 witness: the optimizer has gone through the five custom
\* optimizations and the three retained ones while frames were rendered
C26_Witness ==
    /\ frames > 0
    /\ Len(applied) = Len(RegisteredOptimizations)
    /\ applied[2] = "Reduce resolution - second pass"
    /\ applied[Len(applied)] = "HardwareScalingOptimization"
    /\ hardwareScalingLevel > SECOND_PASS_SCALING
    /\ ~renderingPipeline.fxaaEnabled

=============================================================================
